---- MODULE Spec2Model ----
(***************************************************************************)
(* A model of the LINE diabetes-care chatbot (src/main.py) and of its      *)
(* knowledge-base upload script (src/upload_knowledge_base.py).            *)
(*                                                                         *)
(* A Python str is modelled as a sequence of characters.  A character is   *)
(* a one-character TLA+ string when it is ASCII and the string "uXXXX" of  *)
(* its code point otherwise, so that lower(), strip(), split(), int(),     *)
(* str() and the `in` substring test are computed as Python computes them. *)
(* A Python dict is a function whose DOMAIN is the set of its keys.        *)
(***************************************************************************)
EXTENDS Integers, Sequences, FiniteSets, TLC

\* ------------------------------------------------------------------ text

\* The characters str.strip() removes (space, tab, newline, ideographic space).
Whitespace == {" ", "\t", "\n", "u3000"}

UpperCase == <<"A", "B", "C", "D", "E", "F", "G", "H", "I", "J", "K", "L", "M",
               "N", "O", "P", "Q", "R", "S", "T", "U", "V", "W", "X", "Y", "Z">>

LowerCase == <<"a", "b", "c", "d", "e", "f", "g", "h", "i", "j", "k", "l", "m",
               "n", "o", "p", "q", "r", "s", "t", "u", "v", "w", "x", "y", "z">>

\* str.lower() on one character.
LowerChar(c) ==
    IF \E i \in DOMAIN UpperCase : UpperCase[i] = c
    THEN LowerCase[CHOOSE i \in DOMAIN UpperCase : UpperCase[i] = c]
    ELSE c

\* str.lower()
lower(s) == [i \in 1..Len(s) |-> LowerChar(s[i])]

RECURSIVE lstrip(_)
lstrip(s) == IF s # <<>> /\ Head(s) \in Whitespace THEN lstrip(Tail(s)) ELSE s

RECURSIVE rstrip(_)
rstrip(s) ==
    IF s # <<>> /\ s[Len(s)] \in Whitespace THEN rstrip(SubSeq(s, 1, Len(s) - 1)) ELSE s

\* str.strip()
strip(s) == rstrip(lstrip(s))

\* str.split(sep) for a one-character separator: always at least one part.
RECURSIVE split(_, _)
split(s, sep) ==
    IF \E i \in 1..Len(s) : s[i] = sep
    THEN LET i == CHOOSE k \in 1..Len(s) : s[k] = sep /\ \A j \in 1..(k - 1) : s[j] # sep
         IN  <<SubSeq(s, 1, i - 1)>> \o split(SubSeq(s, i + 1, Len(s)), sep)
    ELSE <<s>>

\* `kw in text` on strings: kw is a contiguous part of text.
Contains(kw, text) ==
    \E i \in 0..(Len(text) - Len(kw)) : SubSeq(text, i + 1, i + Len(kw)) = kw

\* any(keyword in text for keyword in keywords)
AnyIn(keywords, text) == \E kw \in keywords : Contains(kw, text)

DigitChars == <<"0", "1", "2", "3", "4", "5", "6", "7", "8", "9">>

IsDigit(c) == \E d \in DOMAIN DigitChars : DigitChars[d] = c

DigitVal(c) == (CHOOSE d \in DOMAIN DigitChars : DigitChars[d] = c) - 1

\* The digits of an int() literal after its sign: digits, single underscores between.
IntBody(s) ==
    LET t == strip(s)
    IN  IF t # <<>> /\ Head(t) \in {"+", "-"} THEN Tail(t) ELSE t

\* int(s) does not raise ValueError.
IntOk(s) ==
    LET b == IntBody(s)
    IN  /\ b # <<>>
        /\ \A i \in 1..Len(b) :
              \/ IsDigit(b[i])
              \/ /\ b[i] = "_"
                 /\ i > 1
                 /\ i < Len(b)
                 /\ IsDigit(b[i - 1])
                 /\ IsDigit(b[i + 1])

RECURSIVE DigitsVal(_, _)
DigitsVal(b, acc) ==
    IF b = <<>> THEN acc
    ELSE IF Head(b) = "_" THEN DigitsVal(Tail(b), acc)
    ELSE DigitsVal(Tail(b), 10 * acc + DigitVal(Head(b)))

\* int(s), for an s with IntOk(s).
IntVal(s) ==
    LET t == strip(s)
        v == DigitsVal(IntBody(s), 0)
    IN  IF t # <<>> /\ Head(t) = "-" THEN 0 - v ELSE v

\* str(n)
RECURSIVE str(_)
str(n) ==
    IF n < 0 THEN <<"-">> \o str(0 - n)
    ELSE IF n < 10 THEN <<DigitChars[n + 1]>>
    ELSE str(n \div 10) \o <<DigitChars[(n % 10) + 1]>>

\* ------------------------------------------------------------------ dicts

\* d[k] = v
SetItem(d, k, v) == [x \in (DOMAIN d) \cup {k} |-> IF x = k THEN v ELSE d[x]]

\* del d[k]
\* A variant that empties the dict.
DelEverything(d, k) == << >>

DelItem(d, k) == [x \in (DOMAIN d) \ {k} |-> d[x]]

\* {}
EmptyDict == <<>>

\* ------------------------------------------------------------------ phrase sets

\* is_list_files_intent: list_keywords
\*   列出檔案 | 列出文件 | 顯示檔案 | 顯示文件 | 查看檔案 | 查看文件 | 檔案列表 | 文件列表 | 有哪些檔案 | 有哪些文件 | 我的檔案 | 我的文件 | list files | show files | my files
list_keywords ==
    { <<"u5217", "u51FA", "u6A94", "u6848">>,
      <<"u5217", "u51FA", "u6587", "u4EF6">>,
      <<"u986F", "u793A", "u6A94", "u6848">>,
      <<"u986F", "u793A", "u6587", "u4EF6">>,
      <<"u67E5", "u770B", "u6A94", "u6848">>,
      <<"u67E5", "u770B", "u6587", "u4EF6">>,
      <<"u6A94", "u6848", "u5217", "u8868">>,
      <<"u6587", "u4EF6", "u5217", "u8868">>,
      <<"u6709", "u54EA", "u4E9B", "u6A94", "u6848">>,
      <<"u6709", "u54EA", "u4E9B", "u6587", "u4EF6">>,
      <<"u6211", "u7684", "u6A94", "u6848">>,
      <<"u6211", "u7684", "u6587", "u4EF6">>,
      <<"l", "i", "s", "t", " ", "f", "i", "l", "e", "s">>,
      <<"s", "h", "o", "w", " ", "f", "i", "l", "e", "s">>,
      <<"m", "y", " ", "f", "i", "l", "e", "s">> }

\* is_mode_switch_intent: knowledge_keywords
\*   知識庫 | 知識庫模式 | 使用知識庫 | 切換知識庫 | 糖尿病 | 醫療知識 | 專業知識 | knowledge | knowledge base
knowledge_keywords ==
    { <<"u77E5", "u8B58", "u5EAB">>,
      <<"u77E5", "u8B58", "u5EAB", "u6A21", "u5F0F">>,
      <<"u4F7F", "u7528", "u77E5", "u8B58", "u5EAB">>,
      <<"u5207", "u63DB", "u77E5", "u8B58", "u5EAB">>,
      <<"u7CD6", "u5C3F", "u75C5">>,
      <<"u91AB", "u7642", "u77E5", "u8B58">>,
      <<"u5C08", "u696D", "u77E5", "u8B58">>,
      <<"k", "n", "o", "w", "l", "e", "d", "g", "e">>,
      <<"k", "n", "o", "w", "l", "e", "d", "g", "e", " ", "b", "a", "s", "e">> }

\* is_mode_switch_intent: personal_keywords
\*   個人檔案 | 個人模式 | 我的檔案 | 私人檔案 | 切換個人 | 使用個人 | personal | my files | personal mode
personal_keywords ==
    { <<"u500B", "u4EBA", "u6A94", "u6848">>,
      <<"u500B", "u4EBA", "u6A21", "u5F0F">>,
      <<"u6211", "u7684", "u6A94", "u6848">>,
      <<"u79C1", "u4EBA", "u6A94", "u6848">>,
      <<"u5207", "u63DB", "u500B", "u4EBA">>,
      <<"u4F7F", "u7528", "u500B", "u4EBA">>,
      <<"p", "e", "r", "s", "o", "n", "a", "l">>,
      <<"m", "y", " ", "f", "i", "l", "e", "s">>,
      <<"p", "e", "r", "s", "o", "n", "a", "l", " ", "m", "o", "d", "e">> }

\* is_mode_switch_intent: the words of is_mode_command
\*   模式 | 切換 | mode | switch
mode_command_words ==
    { <<"u6A21", "u5F0F">>,
      <<"u5207", "u63DB">>,
      <<"m", "o", "d", "e">>,
      <<"s", "w", "i", "t", "c", "h">> }

\* is_onboarding_command: keywords
\*   設定資料 | 建立資料 | 個人資料設定 | 開始設定 | setup | start
onboarding_keywords ==
    { <<"u8A2D", "u5B9A", "u8CC7", "u6599">>,
      <<"u5EFA", "u7ACB", "u8CC7", "u6599">>,
      <<"u500B", "u4EBA", "u8CC7", "u6599", "u8A2D", "u5B9A">>,
      <<"u958B", "u59CB", "u8A2D", "u5B9A">>,
      <<"s", "e", "t", "u", "p">>,
      <<"s", "t", "a", "r", "t">> }

\* is_profile_view_command: keywords
\*   我的資料 | 個人資料 | 查看資料 | my profile | profile
profile_view_keywords ==
    { <<"u6211", "u7684", "u8CC7", "u6599">>,
      <<"u500B", "u4EBA", "u8CC7", "u6599">>,
      <<"u67E5", "u770B", "u8CC7", "u6599">>,
      <<"m", "y", " ", "p", "r", "o", "f", "i", "l", "e">>,
      <<"p", "r", "o", "f", "i", "l", "e">> }

\* is_profile_update_command: keywords
\*   更新資料 | 修改資料 | 重新設定 | update profile
profile_update_keywords ==
    { <<"u66F4", "u65B0", "u8CC7", "u6599">>,
      <<"u4FEE", "u6539", "u8CC7", "u6599">>,
      <<"u91CD", "u65B0", "u8A2D", "u5B9A">>,
      <<"u", "p", "d", "a", "t", "e", " ", "p", "r", "o", "f", "i", "l", "e">> }

\* handle_text_message: the exact phrases of rule 5
\*   模式 | 目前模式 | 當前模式 | mode | current mode
mode_query_phrases ==
    { <<"u6A21", "u5F0F">>,
      <<"u76EE", "u524D", "u6A21", "u5F0F">>,
      <<"u7576", "u524D", "u6A21", "u5F0F">>,
      <<"m", "o", "d", "e">>,
      <<"c", "u", "r", "r", "e", "n", "t", " ", "m", "o", "d", "e">> }

\* process_onboarding_answer step 3: accepted words
\*   男性 | 女性 | 男 | 女
gender_words ==
    { <<"u7537", "u6027">>,
      <<"u5973", "u6027">>,
      <<"u7537">>,
      <<"u5973">> }

\* process_onboarding_answer step 3: words mapped to male
\*   男性 | 男
male_words ==
    { <<"u7537", "u6027">>,
      <<"u7537">> }

\* process_onboarding_answer step 7: the none synonyms
\*   無 | none | 
none_medication_words ==
    { <<"u7121">>,
      <<"n", "o", "n", "e">>,
      <<>> }

\* process_onboarding_answer step 4: type_map
type_map ==
    (<<"1">> :> <<"u7B2C", "1", "u578B">>)  \* '1': '第1型'
    @@ (<<"2">> :> <<"u7B2C", "2", "u578B">>)  \* '2': '第2型'
    @@ (<<"3">> :> <<"u598A", "u5A20", "u7CD6", "u5C3F", "u75C5">>)  \* '3': '妊娠糖尿病'
    @@ (<<"4">> :> <<"u5176", "u4ED6">>)  \* '4': '其他'

\* process_onboarding_answer step 5: comp_map
comp_map ==
    (<<"1">> :> <<"u8996", "u7DB2", "u819C", "u75C5", "u8B8A">>)  \* '1': '視網膜病變'
    @@ (<<"2">> :> <<"u814E", "u81DF", "u75C5", "u8B8A">>)  \* '2': '腎臟病變'
    @@ (<<"3">> :> <<"u795E", "u7D93", "u75C5", "u8B8A">>)  \* '3': '神經病變'
    @@ (<<"4">> :> <<"u5FC3", "u8840", "u7BA1", "u75BE", "u75C5">>)  \* '4': '心血管疾病'
    @@ (<<"5">> :> <<"u8DB3", "u90E8", "u75C5", "u8B8A">>)  \* '5': '足部病變'

\* process_onboarding_answer step 6: edu_map
edu_map ==
    (<<"1">> :> <<"u570B", "u5C0F">>)  \* '1': '國小'
    @@ (<<"2">> :> <<"u570B", "u4E2D">>)  \* '2': '國中'
    @@ (<<"3">> :> <<"u9AD8", "u4E2D", "/", "u8077">>)  \* '3': '高中/職'
    @@ (<<"4">> :> <<"u5927", "u5B78">>)  \* '4': '大學'
    @@ (<<"5">> :> <<"u7814", "u7A76", "u6240">>)  \* '5': '研究所'

T_male == <<"u7537", "u6027">>  \* 男性
T_female == <<"u5973", "u6027">>  \* 女性
T_none == <<"u7121">>  \* 無
\* ------------------------------------------------------------------ configuration

KNOWLEDGE_BASE_STORE_NAME ==
    <<"c", "h", "a", "t", "b", "o", "t", "_", "k", "n", "o", "w", "l", "e", "d", "g", "e", "_",
      "b", "a", "s", "e">>  \* chatbot_knowledge_base

\* The users, and the units of work (concurrent webhook requests) of one server.
Users == {"U1", "U2"}

Units == {"w1", "w2"}

\* ------------------------------------------------------------------ state

VARIABLES
    USE_KNOWLEDGE_BASE,  \* configuration read from the environment at start
    user_modes,          \* {user_id: "personal" | "knowledge"}
    user_profiles,       \* {user_id: profile dict}
    onboarding_state,    \* {user_id: [step, data]}
    store_name_cache,    \* {display_name: actual store name}
    stores,              \* the remote service: handle -> [display_name, alive]
    pc,                  \* where each unit of work is
    ev,                  \* the event each unit of work handles
    loc,                 \* the local variables of each unit of work
    running,             \* the unit that holds the event loop, or "none"
    create_failed,       \* history: the display names a createStore call failed for
    obtained,            \* history: <<display name, handle>> an upload resolved
    deletes,             \* history: the delete requests sent to the remote service
    events               \* the number of events taken up so far

vars == <<USE_KNOWLEDGE_BASE, user_modes, user_profiles, onboarding_state,
          store_name_cache, stores, pc, ev, loc, running, create_failed, obtained,
          deletes, events>>

history == <<create_failed, obtained, deletes>>

\* ------------------------------------------------------------------ registries

\* A variant whose default ignores the configuration.
get_user_mode_knowledge_default(user_id) ==
    IF user_id \in DOMAIN user_modes THEN user_modes[user_id] ELSE "knowledge"

get_user_mode(user_id) ==
    IF user_id \in DOMAIN user_modes THEN user_modes[user_id]
    ELSE IF USE_KNOWLEDGE_BASE THEN "knowledge" ELSE "personal"

get_user_profile(user_id) ==
    IF user_id \in DOMAIN user_profiles THEN user_profiles[user_id] ELSE EmptyDict

\* A variant that also requires the complications.
required_fields_and_complications ==
    {"name", "age", "gender", "diabetes_type", "education_level", "complications"}

required_fields == {"name", "age", "gender", "diabetes_type", "education_level"}

\* all(field in profile and profile[field] for field in required_fields)
ProfileComplete(profile) ==
    \A field \in required_fields : field \in DOMAIN profile /\ profile[field] # <<>>

is_user_profile_complete(user_id) == ProfileComplete(get_user_profile(user_id))

\* The characters of the source kinds the prefixes are written with, and of the
\* identifiers of users, groups and rooms.
KindText ==
    [user |-> <<"u", "s", "e", "r">>, group |-> <<"g", "r", "o", "u", "p">>,
     room |-> <<"r", "o", "o", "m">>, unknown |-> <<"u", "n", "k", "n", "o", "w", "n">>]

IdText == [U1 |-> <<"U", "1">>, U2 |-> <<"U", "2">>, C1 |-> <<"C", "1">>]

\* A variant that names the personal store after the sender alone.
get_store_name_by_sender(user_id, source) ==
    IF get_user_mode(user_id) = "knowledge" THEN KNOWLEDGE_BASE_STORE_NAME
    ELSE KindText["user"] \o <<"_">> \o IdText[user_id]

\* The store a conversation uses: the shared one in knowledge mode, else one per
\* source: f"user_{...}", f"group_{...}", f"room_{...}", f"unknown_{...}".
get_store_name(user_id, source) ==
    IF get_user_mode(user_id) = "knowledge" THEN KNOWLEDGE_BASE_STORE_NAME
    ELSE IF source.type \in {"user", "group", "room"}
         THEN KindText[source.type] \o <<"_">> \o IdText[source.id]
    ELSE KindText["unknown"] \o <<"_">> \o IdText[user_id]

\* ------------------------------------------------------------------ intents

is_list_files_intent(text) == AnyIn(list_keywords, strip(lower(text)))

\* "knowledge", "personal", or "" when the text is no mode switch.
is_mode_switch_intent(text) ==
    LET text_lower == strip(lower(text))
    IN  IF AnyIn(mode_command_words, text_lower)
        THEN IF AnyIn(knowledge_keywords, text_lower) THEN "knowledge"
             ELSE IF AnyIn(personal_keywords, text_lower) THEN "personal"
             ELSE ""
        ELSE ""

is_onboarding_command(text) == AnyIn(onboarding_keywords, lower(text))

is_profile_view_command(text) == AnyIn(profile_view_keywords, lower(text))

is_profile_update_command(text) == AnyIn(profile_update_keywords, lower(text))

is_mode_query(text) == strip(text) \in mode_query_phrases

\* ------------------------------------------------------------------ inputs

U_name == <<"u5C0F", "u7F8E">>  \* 小美
U_blank == <<" ", " ", " ">>  \* three spaces
U_0 == <<"0">>  \* 0
U_121 == <<"1", "2", "1">>  \* 121
U_minus1 == <<"-", "1">>  \* -1
U_2 == <<" ", "2">>  \* " 2"
U_6 == <<"6">>  \* 6
U_1c3 == <<"1", ",", " ", "3", ",", "9">>  \* 1, 3,9
U_female == <<"u5973", "u6027">>  \* 女性
U_none == <<"u7121">>  \* 無
U_meds == <<"A", ",", " ", "b">>  \* A, b

\* The answers of the onboarding dialogue: for every step some it accepts and some
\* it does not.
AnswerTexts == {U_name, U_blank, U_0, U_121, U_minus1, U_2, U_6, U_1c3,
                U_female, U_none, U_meds}

\* Commands and questions, among them texts that more than one rule recognises.
U_setup == <<"u8A2D", "u5B9A", "u8CC7", "u6599">>  \* 設定資料
U_profile_setup == <<"u500B", "u4EBA", "u8CC7", "u6599", "u8A2D", "u5B9A">>  \* 個人資料設定
U_my_profile == <<"u6211", "u7684", "u8CC7", "u6599">>  \* 我的資料
\* update profile
U_update_profile ==
    <<"u", "p", "d", "a", "t", "e", " ", "p", "r", "o", "f", "i", "l", "e">>
U_update == <<"u66F4", "u65B0", "u8CC7", "u6599">>  \* 更新資料
U_reset == <<"u91CD", "u65B0", "u8A2D", "u5B9A", "u8CC7", "u6599">>  \* 重新設定資料
U_switch_personal == <<"u5207", "u63DB", "u500B", "u4EBA", "u6A21", "u5F0F">>  \* 切換個人模式
U_switch_knowledge == <<"u5207", "u63DB", "u77E5", "u8B58", "u5EAB", "u6A21", "u5F0F">>  \* 切換知識庫模式
U_switch_my_files == <<"u5207", "u63DB", "u6211", "u7684", "u6A94", "u6848">>  \* 切換我的檔案
\* start personal mode
U_start_personal_mode ==
    <<"s", "t", "a", "r", "t", " ", "p", "e", "r", "s", "o", "n", "a", "l",
      " ", "m", "o", "d", "e">>
U_mode == <<" ", "u6A21", "u5F0F", " ">>  \* " 模式 "
U_Mode == <<"M", "o", "d", "e">>  \* Mode
U_list == <<"u5217", "u51FA", "u6A94", "u6848">>  \* 列出檔案
U_question == <<"u7CD6", "u5C3F", "u75C5", "u98F2", "u98DF">>  \* 糖尿病飲食

\* The texts of the router: the commands and questions, and two onboarding answers.
RouterTexts == {U_setup, U_profile_setup, U_my_profile, U_update_profile, U_update,
                U_reset, U_switch_personal, U_switch_knowledge, U_switch_my_files,
                U_start_personal_mode, U_mode, U_Mode, U_list, U_question, U_2, U_none}

\* One accepted answer for each step of the dialogue.
CanonicalAnswers == <<U_name, U_2, U_female, U_2, U_1c3, U_2, U_meds>>

\* The number of events one behaviour of the router takes up.
MaxEvents == 2

DirectChat(user_id) == [type |-> "user", id |-> user_id]

\* The texts the events of the model carry.
Texts == AnswerTexts \cup RouterTexts

\* The intent predicates of every text, evaluated once.
Intents ==
    [text \in Texts |->
        [is_onboarding_command |-> is_onboarding_command(text),
         is_profile_view_command |-> is_profile_view_command(text),
         is_profile_update_command |-> is_profile_update_command(text),
         is_mode_switch_intent |-> is_mode_switch_intent(text),
         is_mode_query |-> is_mode_query(text),
         is_list_files_intent |-> is_list_files_intent(text)]]

\* ------------------------------------------------------------------ onboarding

\* start_onboarding: the session it stores.
\* A variant that counts the steps from zero.
NewSessionFromZero == [step |-> 0, data |-> EmptyDict]

NewSession == [step |-> 1, data |-> EmptyDict]

RECURSIVE SelectedComplications(_)
\* [comp_map[num.strip()] for num in parts if num.strip() in comp_map]
SelectedComplications(parts) ==
    IF parts = <<>> THEN <<>>
    ELSE LET num == strip(Head(parts))
         IN  (IF num \in DOMAIN comp_map THEN <<comp_map[num]>> ELSE <<>>)
                 \o SelectedComplications(Tail(parts))

\* [med.strip() for med in answer.split(',')]
Medications(answer) ==
    LET parts == split(answer, ",") IN [i \in 1..Len(parts) |-> strip(parts[i])]

\* What one call leaves: the session's step and data, the reply, and whether the
\* call reached the end of step 7 (where the profile is stored and the session deleted).
\* A variant that reports every answer as the one that finishes the dialogue.
OutcomeAlwaysFinished(step, data, reply, finished) ==
    [step |-> step, data |-> data, reply |-> reply, finished |-> TRUE]

Outcome(step, data, reply, finished) ==
    [step |-> step, data |-> data, reply |-> reply, finished |-> finished]

\* The off-by-one slip: age 0 is turned away.
AgeRejectedZero(age) == age <= 0 \/ age > 120

\* The slip that forgets the lower limit.
AgeRejectedNoLower(age) == age > 120

\* if age < 0 or age > 120: the answer is turned away.
AgeRejected(age) == age < 0 \/ age > 120

process_onboarding_answer(state, answer) ==
    LET step == state.step
        data == state.data
        a == strip(answer)
    IN  CASE step = 1 ->
               Outcome(2, SetItem(data, "name", a), "ack_name_q2", FALSE)
          [] step = 2 ->
               IF ~IntOk(a) THEN Outcome(2, data, "reprompt_age_number", FALSE)
               ELSE IF AgeRejected(IntVal(a))
                    THEN Outcome(2, data, "reprompt_age_range", FALSE)
                    ELSE Outcome(3, SetItem(data, "age", str(IntVal(a))), "q3", FALSE)
          [] step = 3 ->
               IF a \in gender_words
               THEN Outcome(4, SetItem(data, "gender",
                                       IF a \in male_words THEN T_male ELSE T_female),
                            "q4", FALSE)
               ELSE Outcome(3, data, "reprompt_gender", FALSE)
          [] step = 4 ->
               IF a \in DOMAIN type_map
               THEN Outcome(5, SetItem(data, "diabetes_type", type_map[a]), "q5", FALSE)
               ELSE Outcome(4, data, "reprompt_type", FALSE)
          [] step = 5 ->
               IF a = <<"6">> \/ lower(a) = T_none
               THEN Outcome(6, SetItem(data, "complications", <<>>), "q6", FALSE)
               ELSE Outcome(6, SetItem(data, "complications",
                                       SelectedComplications(split(a, ","))),
                            "q6", FALSE)
          [] step = 6 ->
               IF a \in DOMAIN edu_map
               THEN Outcome(7, SetItem(data, "education_level", edu_map[a]), "q7", FALSE)
               ELSE Outcome(6, data, "reprompt_education", FALSE)
          [] step = 7 ->
               IF lower(a) \in none_medication_words
               THEN Outcome(7, SetItem(data, "current_medications", <<>>), "summary", TRUE)
               ELSE Outcome(7, SetItem(data, "current_medications", Medications(a)),
                            "summary", TRUE)
          [] OTHER -> Outcome(step, data, "None", FALSE)

\* The replies that repeat a question.
RePrompts == {"reprompt_age_number", "reprompt_age_range", "reprompt_gender",
              "reprompt_type", "reprompt_education"}

\* ------------------------------------------------------------------ units of work

\* The upload poll loop: max_wait and the sleep between two polls, in seconds.
max_wait == 60

poll_interval == 2

\* A variant in which the coroutine also yields between recording the profile and
\* deleting the session.
SuspendsAtDelete(p) ==
    p \in {"idle", "reply", "ack", "download", "sleep", "push", "img_ack", "img_download",
           "ob_del"}

\* A variant in which the calls that list and create stores are awaited, as calls of
\* an asynchronous client would be.
SuspendsAtStoreCalls(p) ==
    p \in {"idle", "reply", "ack", "download", "sleep", "push", "img_ack", "img_download",
           "ens_list", "ens_create"}

\* The places where a coroutine really awaits I/O or a timer (reply_message,
\* push_message, get_message_content, asyncio.sleep) and so releases the event loop.
\* Every other place is synchronous code, or a blocking call of the genai client
\* made on the event loop's thread: no other unit of work runs until it returns.
Suspends(p) ==
    p \in {"idle", "reply", "ack", "download", "sleep", "push", "img_ack", "img_download"}

LocInit ==
    [route |-> "", reply |-> "", mode |-> "", nudge |-> FALSE, store_name |-> <<>>,
     actual |-> 0, via |-> "", elapsed |-> 0, done |-> FALSE, cause |-> "",
     detail |-> ""]

\* What a unit keeps of its event: its kind, its sender and its source.
NoEvent == [kind |-> "none", user |-> "", source |-> [type |-> "", id |-> ""]]

Event(kind, user, source) == [kind |-> kind, user |-> user, source |-> source]

\* The unit t may run now: the event loop is free, or t already holds it.
CanRun(t) == running \in {"none", t}

\* Unit t moves to p with locals l; it keeps the event loop unless p is an await.
Goto(t, p, l) ==
    /\ pc' = [pc EXCEPT ![t] = p]
    /\ loc' = [loc EXCEPT ![t] = l]
    /\ running' = IF Suspends(p) THEN "none" ELSE t

\* The handler of unit t returns.
Return(t) ==
    /\ pc' = [pc EXCEPT ![t] = "idle"]
    /\ loc' = [loc EXCEPT ![t] = LocInit]
    /\ ev' = [ev EXCEPT ![t] = NoEvent]
    /\ running' = "none"

\* ------------------------------------------------------------------ remote service

\* The handle of the first live store listStores() shows under this display name, or 0.
FindStore(display_name) ==
    LET hits == {h \in DOMAIN stores :
                    stores[h].alive /\ stores[h].display_name = display_name}
    IN  IF hits = {} THEN 0 ELSE CHOOSE h \in hits : \A g \in hits : h <= g

\* A store of the service: its display name, whether it still exists, who created it.
StoreRecord(display_name, by) == [display_name |-> display_name, alive |-> TRUE, by |-> by]

\* createStore(display_name): the service picks the handle.
CreateStore(display_name, by) == Append(stores, StoreRecord(display_name, by))

Alive(h) == h \in DOMAIN stores /\ stores[h].alive

\* ------------------------------------------------------------------ IntentRouter

\* A variant that looks for the onboarding command before it looks for a session.
RouteCommandsFirst(user_id, text) ==
    IF Intents[text].is_onboarding_command THEN "onboarding_start"
    ELSE IF user_id \in DOMAIN onboarding_state THEN "onboarding_answer"
    ELSE IF Intents[text].is_profile_view_command THEN "profile_view"
    ELSE IF Intents[text].is_profile_update_command THEN "profile_update"
    ELSE IF Intents[text].is_mode_switch_intent # "" THEN "mode_switch"
    ELSE IF Intents[text].is_mode_query THEN "mode_query"
    ELSE IF Intents[text].is_list_files_intent THEN "list_documents"
    ELSE "query"

\* A variant that looks for the profile update before the profile view.
RouteUpdateFirst(user_id, text) ==
    IF user_id \in DOMAIN onboarding_state THEN "onboarding_answer"
    ELSE IF Intents[text].is_onboarding_command THEN "onboarding_start"
    ELSE IF Intents[text].is_profile_update_command THEN "profile_update"
    ELSE IF Intents[text].is_profile_view_command THEN "profile_view"
    ELSE IF Intents[text].is_mode_switch_intent # "" THEN "mode_switch"
    ELSE IF Intents[text].is_mode_query THEN "mode_query"
    ELSE IF Intents[text].is_list_files_intent THEN "list_documents"
    ELSE "query"

\* The branch handle_text_message takes, in the order of its if statements.
Route(user_id, text) ==
    IF user_id \in DOMAIN onboarding_state THEN "onboarding_answer"
    ELSE IF Intents[text].is_onboarding_command THEN "onboarding_start"
    ELSE IF Intents[text].is_profile_view_command THEN "profile_view"
    ELSE IF Intents[text].is_profile_update_command THEN "profile_update"
    ELSE IF Intents[text].is_mode_switch_intent # "" THEN "mode_switch"
    ELSE IF Intents[text].is_mode_query THEN "mode_query"
    ELSE IF Intents[text].is_list_files_intent THEN "list_documents"
    ELSE "query"

\* Entering a store lookup of list_documents_in_store or query_file_search: a cached
\* name goes straight to the call that uses the store, another one to listStores().
Lookup(t, l, store_name, hit, miss) ==
    IF store_name \in DOMAIN store_name_cache
    THEN Goto(t, hit, [l EXCEPT !.store_name = store_name,
                                !.actual = store_name_cache[store_name]])
    ELSE Goto(t, miss, [l EXCEPT !.store_name = store_name])

handle_text_message(t, user_id, source, text) ==
    /\ pc[t] = "idle"
    /\ running = "none"
    /\ ev' = [ev EXCEPT ![t] = Event("text", user_id, source)]
    /\ UNCHANGED <<USE_KNOWLEDGE_BASE, stores, store_name_cache, history>>
    /\ LET current_mode == get_user_mode(user_id)
           route == Route(user_id, text)
           l == [LocInit EXCEPT !.mode = current_mode, !.route = route]
       IN  CASE route = "onboarding_answer" ->
                  LET r == process_onboarding_answer(onboarding_state[user_id], text)
                  IN  /\ onboarding_state' =
                             SetItem(onboarding_state, user_id,
                                     [step |-> r.step, data |-> r.data])
                      /\ UNCHANGED user_modes
                      /\ IF r.finished
                         THEN /\ user_profiles' = SetItem(user_profiles, user_id, r.data)
                              /\ Goto(t, "ob_del", [l EXCEPT !.reply = r.reply])
                         ELSE /\ UNCHANGED user_profiles
                              /\ Goto(t, "reply", [l EXCEPT !.reply = r.reply])
             [] route = "onboarding_start" ->
                  /\ onboarding_state' = SetItem(onboarding_state, user_id, NewSession)
                  /\ UNCHANGED <<user_modes, user_profiles>>
                  /\ Goto(t, "reply", [l EXCEPT !.reply = "q1"])
             [] route = "profile_view" ->
                  /\ UNCHANGED <<user_modes, user_profiles, onboarding_state>>
                  /\ Goto(t, "reply",
                          [l EXCEPT !.reply = IF get_user_profile(user_id) # EmptyDict
                                              THEN "profile" ELSE "no_profile"])
             [] route = "profile_update" ->
                  /\ onboarding_state' = SetItem(onboarding_state, user_id, NewSession)
                  /\ UNCHANGED <<user_modes, user_profiles>>
                  /\ Goto(t, "reply", [l EXCEPT !.reply = "reset_q1"])
             [] route = "mode_switch" ->
                  /\ user_modes' =
                         SetItem(user_modes, user_id, Intents[text].is_mode_switch_intent)
                  /\ UNCHANGED <<user_profiles, onboarding_state>>
                  /\ Goto(t, "reply", [l EXCEPT !.reply = "switched"])
             [] route = "mode_query" ->
                  /\ UNCHANGED <<user_modes, user_profiles, onboarding_state>>
                  /\ Goto(t, "reply", [l EXCEPT !.reply = "mode_status"])
             [] route = "list_documents" ->
                  /\ UNCHANGED <<user_modes, user_profiles, onboarding_state>>
                  /\ Lookup(t, l, get_store_name(user_id, source), "l_docs", "l_list")
             [] route = "query" ->
                  /\ UNCHANGED <<user_modes, user_profiles, onboarding_state>>
                  /\ Lookup(t, [l EXCEPT !.nudge = ~is_user_profile_complete(user_id)
                                                    /\ current_mode = "knowledge"],
                            get_store_name(user_id, source), "q_generate", "q_list")

\* process_onboarding_answer, step 7, after set_user_profile: del onboarding_state[user_id].
OnboardingDelete(t) ==
    /\ pc[t] = "ob_del"
    /\ CanRun(t)
    /\ IF ev[t].user \in DOMAIN onboarding_state
       THEN /\ onboarding_state' = DelItem(onboarding_state, ev[t].user)
            /\ Goto(t, "reply", loc[t])
            /\ UNCHANGED ev
       ELSE /\ UNCHANGED onboarding_state  \* KeyError: the handler ends without a reply
            /\ Return(t)
    /\ UNCHANGED <<USE_KNOWLEDGE_BASE, user_modes, user_profiles, store_name_cache,
                   stores, history, events>>

\* await line_bot_api.reply_message(...) or push_message(...) returns; the handler ends.
Reply(t) ==
    /\ pc[t] \in {"reply", "push"}
    /\ CanRun(t)
    /\ Return(t)
    /\ UNCHANGED <<USE_KNOWLEDGE_BASE, user_modes, user_profiles, onboarding_state,
                   store_name_cache, stores, history, events>>

handle_follow_event(t, user_id) ==
    /\ pc[t] = "idle"
    /\ running = "none"
    /\ ev' = [ev EXCEPT ![t] = Event("follow", user_id, [type |-> "user", id |-> user_id])]
    /\ IF is_user_profile_complete(user_id)
       THEN /\ UNCHANGED onboarding_state
            /\ Goto(t, "reply", [LocInit EXCEPT !.route = "follow", !.reply = "welcome_back"])
       ELSE /\ onboarding_state' = SetItem(onboarding_state, user_id, NewSession)
            /\ Goto(t, "reply", [LocInit EXCEPT !.route = "follow", !.reply = "welcome_q1"])
    /\ UNCHANGED <<USE_KNOWLEDGE_BASE, user_modes, user_profiles, store_name_cache,
                   stores, history>>

\* ------------------------------------------------------------------ listing and query

\* The frame of a step that touches only the cache, the remote stores and its own unit.
StoreStepFrame ==
    UNCHANGED <<USE_KNOWLEDGE_BASE, user_modes, user_profiles, onboarding_state, ev,
                deletes, events>>

\* A variant that creates the store it does not find and lists it.
ListStoresForListingCreating(t) ==
    /\ pc[t] = "l_list"
    /\ CanRun(t)
    /\ StoreStepFrame
    /\ UNCHANGED history
    /\ LET h == FindStore(loc[t].store_name)
           new == IF h # 0 THEN h ELSE Len(stores) + 1
       IN  /\ stores' = IF h # 0 THEN stores ELSE CreateStore(loc[t].store_name, "server")
           /\ store_name_cache' = SetItem(store_name_cache, loc[t].store_name, new)
           /\ Goto(t, "l_docs", [loc[t] EXCEPT !.actual = new])

\* list_documents_in_store: client.file_search_stores.list() returns or raises.
ListStoresForListing(t) ==
    /\ pc[t] = "l_list"
    /\ CanRun(t)
    /\ StoreStepFrame
    /\ UNCHANGED <<stores, history>>
    /\ \/ \* the call raises: the outer except returns []
          /\ UNCHANGED store_name_cache
          /\ Goto(t, "reply", [loc[t] EXCEPT !.reply = "no_documents", !.cause = "error"])
       \/ LET h == FindStore(loc[t].store_name)
          IN  IF h # 0
              THEN /\ store_name_cache' = SetItem(store_name_cache, loc[t].store_name, h)
                   /\ Goto(t, "l_docs", [loc[t] EXCEPT !.actual = h])
              ELSE /\ UNCHANGED store_name_cache
                   /\ Goto(t, "reply",
                           [loc[t] EXCEPT !.reply = "no_documents", !.cause = "not_found"])

\* list_documents_in_store: documents.list(parent=actual_store_name) returns or raises;
\* send_files_carousel then replies. The documents of a store are the service's own.
ListDocuments(t) ==
    /\ pc[t] = "l_docs"
    /\ CanRun(t)
    /\ StoreStepFrame
    /\ UNCHANGED <<stores, store_name_cache, history>>
    /\ \/ Goto(t, "reply", [loc[t] EXCEPT !.reply = "no_documents", !.cause = "error"])
       \/ /\ Alive(loc[t].actual)
          /\ \E n \in {0, 1} :
                Goto(t, "reply",
                     [loc[t] EXCEPT !.reply = IF n = 0 THEN "no_documents" ELSE "carousel",
                                    !.cause = "listed"])

\* A variant that creates the store it does not find, as the upload path does, and
\* queries it.
ListStoresForQueryCreating(t) ==
    /\ pc[t] = "q_list"
    /\ CanRun(t)
    /\ StoreStepFrame
    /\ UNCHANGED history
    /\ LET h == FindStore(loc[t].store_name)
           new == IF h # 0 THEN h ELSE Len(stores) + 1
       IN  /\ stores' = IF h # 0 THEN stores ELSE CreateStore(loc[t].store_name, "server")
           /\ store_name_cache' = SetItem(store_name_cache, loc[t].store_name, new)
           /\ Goto(t, "q_generate", [loc[t] EXCEPT !.actual = new])

\* query_file_search: client.file_search_stores.list() returns or raises.
ListStoresForQuery(t) ==
    /\ pc[t] = "q_list"
    /\ CanRun(t)
    /\ StoreStepFrame
    /\ UNCHANGED <<stores, history>>
    /\ \/ \* the call raises: the inner except logs it, actual_store_name stays None
          /\ UNCHANGED store_name_cache
          /\ Goto(t, "reply", [loc[t] EXCEPT !.reply = "no_files", !.cause = "error"])
       \/ LET h == FindStore(loc[t].store_name)
          IN  IF h # 0
              THEN /\ store_name_cache' = SetItem(store_name_cache, loc[t].store_name, h)
                   /\ Goto(t, "q_generate", [loc[t] EXCEPT !.actual = h])
              ELSE /\ UNCHANGED store_name_cache
                   /\ Goto(t, "reply",
                           [loc[t] EXCEPT !.reply = "no_files", !.cause = "not_found"])

\* The error texts a generate_content call can raise with, as the except clause
\* tells them apart: "not found" / "does not exist" in the text, or anything else.
ErrorDetails == {"store not found", "quota exceeded", "deadline exceeded"}

\* query_file_search: client.models.generate_content(...) returns or raises.
GenerateContent(t) ==
    /\ pc[t] = "q_generate"
    /\ CanRun(t)
    /\ StoreStepFrame
    /\ UNCHANGED <<stores, store_name_cache, history>>
    /\ \/ /\ Alive(loc[t].actual)
          /\ \E r \in {"answer", "no_info"} :
                Goto(t, "reply", [loc[t] EXCEPT !.reply = r, !.cause = "answered"])
       \/ \E e \in ErrorDetails :
             Goto(t, "reply",
                  [loc[t] EXCEPT !.reply = IF e = "store not found" THEN "no_files"
                                           ELSE "query_error",
                                 !.detail = IF e = "store not found" THEN "" ELSE e,
                                 !.cause = e])

\* ------------------------------------------------------------------ upload

handle_document_message(t, user_id, source) ==
    /\ pc[t] = "idle"
    /\ running = "none"
    /\ ev' = [ev EXCEPT ![t] = Event("file", user_id, source)]
    /\ Goto(t, "ack",
            [LocInit EXCEPT !.route = "upload",
                            !.store_name = get_store_name(user_id, source)])
    /\ UNCHANGED <<USE_KNOWLEDGE_BASE, user_modes, user_profiles, onboarding_state,
                   store_name_cache, stores, history>>

\* The upload ends: upload_to_file_search_store returns success, and
\* handle_document_message pushes the message for it.
UploadResult(t, l, success, cause) ==
    Goto(t, "push", [l EXCEPT !.reply = IF success THEN "upload_ok" ELSE "upload_failed",
                              !.cause = cause])

\* await line_bot_api.reply_message(...) of the "processing" notice returns; the
\* handler goes on to await download_line_content.
Ack(t) ==
    /\ pc[t] = "ack"
    /\ CanRun(t)
    /\ StoreStepFrame
    /\ UNCHANGED <<stores, store_name_cache, history>>
    /\ Goto(t, "download", loc[t])

\* A variant that does not keep the mapping.
CacheStoreSkipped(store_name, actual_store_name) == store_name_cache

\* store_name_cache[store_name] = actual_store_name
CacheStore(store_name, actual_store_name) ==
    SetItem(store_name_cache, store_name, actual_store_name)

\* download_line_content returns; on a file, upload_to_file_search_store starts with
\* its cache check.
Download(t) ==
    /\ pc[t] = "download"
    /\ CanRun(t)
    /\ StoreStepFrame
    /\ UNCHANGED <<stores, store_name_cache, create_failed>>
    /\ \/ /\ Goto(t, "push", [loc[t] EXCEPT !.reply = "download_failed"])
          /\ UNCHANGED obtained
       \/ IF loc[t].store_name \in DOMAIN store_name_cache
          THEN LET h == store_name_cache[loc[t].store_name]
               IN  /\ Goto(t, "up_submit",
                           [loc[t] EXCEPT !.actual = h, !.via = "cache"])
                   /\ obtained' = obtained \cup {<<loc[t].store_name, h>>}
          ELSE /\ Goto(t, "ens_list", loc[t])
               /\ UNCHANGED obtained

\* ensure_file_search_store_exists: client.file_search_stores.list() returns or raises.
EnsureList(t) ==
    /\ pc[t] = "ens_list"
    /\ CanRun(t)
    /\ StoreStepFrame
    /\ UNCHANGED <<stores, create_failed>>
    /\ \/ /\ UploadResult(t, loc[t], FALSE, "unresolved")
          /\ UNCHANGED <<store_name_cache, obtained>>
       \/ LET h == FindStore(loc[t].store_name)
          IN  IF h # 0
              THEN /\ store_name_cache' = CacheStore(loc[t].store_name, h)
                   /\ obtained' = obtained \cup {<<loc[t].store_name, h>>}
                   /\ Goto(t, "up_submit", [loc[t] EXCEPT !.actual = h, !.via = "list"])
              ELSE /\ UNCHANGED <<store_name_cache, obtained>>
                   /\ Goto(t, "ens_create", loc[t])

\* A variant without the test of success: after a failed create the empty name is
\* cached and the upload is submitted with it.
EnsureCreateUnchecked(t) ==
    /\ pc[t] = "ens_create"
    /\ CanRun(t)
    /\ StoreStepFrame
    /\ \/ /\ create_failed' = create_failed \cup {loc[t].store_name}
          /\ store_name_cache' = CacheStore(loc[t].store_name, 0)
          /\ Goto(t, "up_submit", [loc[t] EXCEPT !.via = "create"])
          /\ UNCHANGED <<stores, obtained>>
       \/ LET h == Len(stores) + 1
          IN  /\ stores' = CreateStore(loc[t].store_name, "server")
              /\ store_name_cache' = CacheStore(loc[t].store_name, h)
              /\ obtained' = obtained \cup {<<loc[t].store_name, h>>}
              /\ Goto(t, "up_submit", [loc[t] EXCEPT !.actual = h, !.via = "create"])
              /\ UNCHANGED create_failed

\* ensure_file_search_store_exists: client.file_search_stores.create(...) returns or
\* raises; on success upload_to_file_search_store caches the mapping.
EnsureCreate(t) ==
    /\ pc[t] = "ens_create"
    /\ CanRun(t)
    /\ StoreStepFrame
    /\ \/ /\ create_failed' = create_failed \cup {loc[t].store_name}
          /\ UploadResult(t, loc[t], FALSE, "unresolved")
          /\ UNCHANGED <<stores, store_name_cache, obtained>>
       \/ LET h == Len(stores) + 1
          IN  /\ stores' = CreateStore(loc[t].store_name, "server")
              /\ store_name_cache' = CacheStore(loc[t].store_name, h)
              /\ obtained' = obtained \cup {<<loc[t].store_name, h>>}
              /\ Goto(t, "up_submit", [loc[t] EXCEPT !.actual = h, !.via = "create"])
              /\ UNCHANGED create_failed

\* A variant of the loop test without the ceiling.
PollLoopUntilDone(t, l) ==
    IF ~l.done THEN Goto(t, "sleep", l) ELSE UploadResult(t, l, TRUE, "done")

\* while not operation.done and elapsed < max_wait: the test of the poll loop, and
\* what follows it when the loop ends.
PollLoop(t, l) ==
    IF ~l.done /\ l.elapsed < max_wait THEN Goto(t, "sleep", l)
    ELSE IF l.done THEN UploadResult(t, l, TRUE, "done")
    ELSE UploadResult(t, l, FALSE, "timeout")

\* client.file_search_stores.upload_to_file_search_store(...) returns the operation
\* or raises (it raises when the store behind the handle is gone). The handle and the
\* branch that produced it are not used after this call.
UploadSubmit(t) ==
    /\ pc[t] = "up_submit"
    /\ CanRun(t)
    /\ StoreStepFrame
    /\ UNCHANGED <<stores, store_name_cache, history>>
    /\ LET l == [loc[t] EXCEPT !.actual = 0, !.via = ""]
       IN  \/ UploadResult(t, l, FALSE, "error")
           \/ /\ Alive(loc[t].actual)
              /\ \E d \in BOOLEAN : PollLoop(t, [l EXCEPT !.done = d])

\* await asyncio.sleep(2) returns; client.operations.get(operation) returns or raises;
\* elapsed += 2; the loop test.
Poll(t) ==
    /\ pc[t] = "sleep"
    /\ CanRun(t)
    /\ StoreStepFrame
    /\ UNCHANGED <<stores, store_name_cache, history>>
    /\ \/ UploadResult(t, loc[t], FALSE, "error")
       \/ \E d \in BOOLEAN :
             PollLoop(t, [loc[t] EXCEPT !.done = d,
                                        !.elapsed = loc[t].elapsed + poll_interval])

\* ------------------------------------------------------------------ image

\* handle_image_message: reply the "analysing" notice.
handle_image_message(t, user_id, source) ==
    /\ pc[t] = "idle"
    /\ running = "none"
    /\ ev' = [ev EXCEPT ![t] = Event("image", user_id, source)]
    /\ Goto(t, "img_ack", [LocInit EXCEPT !.route = "image"])
    /\ UNCHANGED <<USE_KNOWLEDGE_BASE, user_modes, user_profiles, onboarding_state,
                   store_name_cache, stores, history>>

\* await line_bot_api.reply_message(...) of the notice returns; the handler goes on
\* to await download_line_content.
ImageAck(t) ==
    /\ pc[t] = "img_ack"
    /\ CanRun(t)
    /\ StoreStepFrame
    /\ UNCHANGED <<stores, store_name_cache, history>>
    /\ Goto(t, "img_download", loc[t])

\* await download_line_content(...) returns None or the path of the image.
ImageDownload(t) ==
    /\ pc[t] = "img_download"
    /\ CanRun(t)
    /\ StoreStepFrame
    /\ UNCHANGED <<stores, store_name_cache, history>>
    /\ \/ Goto(t, "push", [loc[t] EXCEPT !.reply = "download_failed"])
       \/ Goto(t, "img_analyze", loc[t])

\* analyze_image_with_gemini: client.models.generate_content(...) returns a text or
\* none, or raises; the handler then pushes the result.
AnalyzeImage(t) ==
    /\ pc[t] = "img_analyze"
    /\ CanRun(t)
    /\ StoreStepFrame
    /\ UNCHANGED <<stores, store_name_cache, history>>
    /\ \/ \E r \in {"analysis", "no_analysis"} :
             Goto(t, "push", [loc[t] EXCEPT !.reply = r, !.cause = "answered"])
       \/ \E e \in ErrorDetails :
             Goto(t, "push", [loc[t] EXCEPT !.reply = "analysis_error", !.detail = e,
                                           !.cause = e])

\* ------------------------------------------------------------------ delete

\* A delete request as the remote service receives it: the path it came by and
\* whether it carries the force flag set to true.
DeleteRequest(path, options) == [path |-> path, force |-> options.force]

\* A variant of the REST parameters without the force flag set.
rest_delete_params_unforced == [force |-> FALSE]

\* config={'force': True} of client.file_search_stores.documents.delete
sdk_delete_config == [force |-> TRUE]

\* params = {'key': GOOGLE_API_KEY, 'force': 'true'} of requests.delete
rest_delete_params == [force |-> TRUE]

\* handle_postback's parse of the postback data:
\* dict(param.split('=') for param in data.split('&')); a part that does not split
\* in two makes dict() raise.
PostbackPairs(data) == [i \in DOMAIN split(data, "&") |-> split(split(data, "&")[i], "=")]

PostbackParses(data) == \A i \in DOMAIN PostbackPairs(data) : Len(PostbackPairs(data)[i]) = 2

\* params.get(key): the value of the last pair with this key, or <<>> for None.
PostbackGet(data, key) ==
    LET pairs == PostbackPairs(data)
        hits == {i \in DOMAIN pairs : pairs[i][1] = key}
    IN  IF hits = {} THEN <<>>
        ELSE pairs[CHOOSE i \in hits : \A j \in hits : j <= i][2]

T_action == <<"a", "c", "t", "i", "o", "n">>

T_doc_name == <<"d", "o", "c", "_", "n", "a", "m", "e">>

T_delete_file == <<"d", "e", "l", "e", "t", "e", "_", "f", "i", "l", "e">>

\* handle_postback: parse the data; on action=delete_file with a document name,
\* delete_document starts on the SDK path when the client has documents, else on the
\* REST path.
handle_postback(t, user_id, data) ==
    /\ pc[t] = "idle"
    /\ running = "none"
    /\ UNCHANGED <<USE_KNOWLEDGE_BASE, user_modes, user_profiles, onboarding_state,
                   store_name_cache, stores, history>>
    /\ LET l == [LocInit EXCEPT !.route = "postback"]
       IN  IF ~PostbackParses(data)
           THEN /\ ev' = [ev EXCEPT ![t] = Event("postback", user_id, DirectChat(user_id))]
                /\ Goto(t, "reply", [l EXCEPT !.reply = "postback_error"])
           ELSE IF PostbackGet(data, T_action) = T_delete_file
                   /\ PostbackGet(data, T_doc_name) # <<>>
           THEN /\ ev' = [ev EXCEPT ![t] = Event("postback", user_id, DirectChat(user_id))]
                /\ \E has_documents \in BOOLEAN :
                      Goto(t, IF has_documents THEN "del_sdk" ELSE "del_rest", l)
           ELSE \* unknown action: logged, no reply, the handler returns
                UNCHANGED <<pc, ev, loc, running>>

\* The frame of a step of delete_document.
DeleteFrame ==
    UNCHANGED <<USE_KNOWLEDGE_BASE, user_modes, user_profiles, onboarding_state,
                store_name_cache, stores, create_failed, obtained, ev, events>>

\* delete_document: client.file_search_stores.documents.delete(name, config) returns
\* (True) or raises (the REST fallback follows).
DeleteSdk(t) ==
    /\ pc[t] = "del_sdk"
    /\ CanRun(t)
    /\ DeleteFrame
    /\ deletes' = deletes \cup {DeleteRequest("sdk", sdk_delete_config)}
    /\ \/ Goto(t, "reply", [loc[t] EXCEPT !.reply = "deleted", !.cause = "sdk"])
       \/ Goto(t, "del_rest", loc[t])

\* delete_document: requests.delete(url, params) and raise_for_status() return (True)
\* or raise (False).
DeleteRest(t) ==
    /\ pc[t] = "del_rest"
    /\ CanRun(t)
    /\ DeleteFrame
    /\ deletes' = deletes \cup {DeleteRequest("rest", rest_delete_params)}
    /\ \/ Goto(t, "reply", [loc[t] EXCEPT !.reply = "deleted", !.cause = "rest"])
       \/ Goto(t, "reply", [loc[t] EXCEPT !.reply = "delete_failed", !.cause = "error"])

\* ------------------------------------------------------------------ environment

\* Somebody deletes a store out-of-band (the console, another process).
ExternalDelete(h) ==
    /\ h \in DOMAIN stores
    /\ stores[h].alive
    /\ stores' = [stores EXCEPT ![h].alive = FALSE]
    /\ UNCHANGED <<USE_KNOWLEDGE_BASE, user_modes, user_profiles, onboarding_state,
                   store_name_cache, pc, ev, loc, running, history, events>>

\* ------------------------------------------------------------------ specifications

Init ==
    /\ USE_KNOWLEDGE_BASE = TRUE
    /\ user_modes = EmptyDict
    /\ user_profiles = EmptyDict
    /\ onboarding_state = EmptyDict
    /\ store_name_cache = EmptyDict
    /\ stores = <<>>
    /\ pc = [t \in Units |-> "idle"]
    /\ ev = [t \in Units |-> NoEvent]
    /\ loc = [t \in Units |-> LocInit]
    /\ running = "none"
    /\ create_failed = {}
    /\ obtained = {}
    /\ deletes = {}
    /\ events = 0

\* The onboarding dialogue of one user, one event at a time: the follow event opens
\* the session, the user's answers arrive while it is open.
AnswerArrives(t) ==
    \E text \in AnswerTexts :
        /\ "U1" \in DOMAIN onboarding_state
        /\ handle_text_message(t, "U1", DirectChat("U1"), text)
        /\ UNCHANGED events

FollowArrives(t) == handle_follow_event(t, "U1") /\ UNCHANGED events

NextOnboarding ==
    \E t \in {"w1"} :
        \/ FollowArrives(t)
        \/ AnswerArrives(t)
        \/ OnboardingDelete(t)
        \/ Reply(t)

SpecOnboarding == Init /\ [][NextOnboarding]_vars

\* The session a dialogue is in when it waits for the answer of this step, having
\* accepted the canonical answers of the steps before it.
RECURSIVE SessionAt(_)
SessionAt(step) ==
    IF step = 1 THEN NewSession
    ELSE LET r == process_onboarding_answer(SessionAt(step - 1), CanonicalAnswers[step - 1])
         IN  [step |-> r.step, data |-> r.data]

\* The profile the canonical dialogue records.
CanonicalProfile == process_onboarding_answer(SessionAt(7), CanonicalAnswers[7]).data

\* The router starts where earlier dialogues left the server: the user "U1" has no
\* session or one at any step, and no profile or a recorded one; the knowledge base
\* store exists, as upload_knowledge_base.py creates it.
InitRouter ==
    /\ USE_KNOWLEDGE_BASE = TRUE
    /\ user_modes = EmptyDict
    /\ user_profiles \in {EmptyDict, SetItem(EmptyDict, "U1", CanonicalProfile)}
    /\ onboarding_state \in
           {EmptyDict} \cup {SetItem(EmptyDict, "U1", SessionAt(step)) : step \in 1..7}
    /\ store_name_cache = EmptyDict
    /\ stores = <<StoreRecord(KNOWLEDGE_BASE_STORE_NAME, "script")>>
    /\ pc = [t \in Units |-> "idle"]
    /\ ev = [t \in Units |-> NoEvent]
    /\ loc = [t \in Units |-> LocInit]
    /\ running = "none"
    /\ create_failed = {}
    /\ obtained = {}
    /\ deletes = {}
    /\ events = 0

\* handle_callback hands a text event of some user to a free unit.
TextArrives(t) ==
    \E user_id \in Users, text \in RouterTexts :
        /\ events < MaxEvents
        /\ events' = events + 1
        /\ handle_text_message(t, user_id, DirectChat(user_id), text)

\* handle_callback hands a follow event of some user to a free unit.
FollowEventArrives(t) ==
    \E user_id \in Users :
        /\ events < MaxEvents
        /\ events' = events + 1
        /\ handle_follow_event(t, user_id)

NextRouter ==
    \E t \in Units :
        \/ TextArrives(t)
        \/ FollowEventArrives(t)
        \/ OnboardingDelete(t)
        \/ ListStoresForListing(t)
        \/ ListDocuments(t)
        \/ ListStoresForQuery(t)
        \/ GenerateContent(t)
        \/ Reply(t)

SpecRouter == InitRouter /\ [][NextRouter]_vars

\* The uploads start on a server without sessions: the user "U2" has switched to the
\* personal mode and has no store yet; "U1" uses the knowledge base, whose store
\* upload_knowledge_base.py has created.
InitStore ==
    /\ USE_KNOWLEDGE_BASE = TRUE
    /\ user_modes = SetItem(EmptyDict, "U2", "personal")
    /\ user_profiles = EmptyDict
    /\ onboarding_state = EmptyDict
    /\ store_name_cache = EmptyDict
    /\ stores = <<StoreRecord(KNOWLEDGE_BASE_STORE_NAME, "script")>>
    /\ pc = [t \in Units |-> "idle"]
    /\ ev = [t \in Units |-> NoEvent]
    /\ loc = [t \in Units |-> LocInit]
    /\ running = "none"
    /\ create_failed = {}
    /\ obtained = {}
    /\ deletes = {}
    /\ events = 0

\* handle_callback hands a file message of some user to a free unit.
FileArrives(t) ==
    \E user_id \in Users :
        /\ handle_document_message(t, user_id, DirectChat(user_id))
        /\ UNCHANGED events

NextStore ==
    \/ \E t \in Units :
           \/ FileArrives(t)
           \/ Ack(t)
           \/ Download(t)
           \/ EnsureList(t)
           \/ EnsureCreate(t)
           \/ UploadSubmit(t)
           \/ Poll(t)
           \/ Reply(t)
    \/ \E h \in DOMAIN stores : ExternalDelete(h)

SpecStore == InitStore /\ [][NextStore]_vars

\* ------------------------------------------------------------------ claims

\* The answers the dialogue is meant to accept at each step: a non-empty trimmed
\* name, an integer age in 0..120, a gender word, a diabetes-type code, the none
\* code or word or a comma list with at least one complication code, an education
\* code, any text for the medications.
ValidAnswer(step, text) ==
    LET a == strip(text)
    IN  CASE step = 1 -> a # <<>>
          [] step = 2 -> IntOk(a) /\ IntVal(a) \in 0..120
          [] step = 3 -> a \in {<<"u7537", "u6027">>, <<"u5973", "u6027">>,
                                <<"u7537">>, <<"u5973">>}
          [] step = 4 -> a \in {<<"1">>, <<"2">>, <<"3">>, <<"4">>}
          [] step = 5 -> \/ a = <<"6">>
                         \/ lower(a) = <<"u7121">>
                         \/ \E i \in DOMAIN split(a, ",") :
                               strip(split(a, ",")[i]) \in
                                   {<<"1">>, <<"2">>, <<"3">>, <<"4">>, <<"5">>}
          [] step = 6 -> a \in {<<"1">>, <<"2">>, <<"3">>, <<"4">>, <<"5">>}
          [] step = 7 -> TRUE
          [] OTHER -> FALSE

\* Unit t takes up a text of user_id in this step, while that user's session is open.
AnswerStep(t, user_id, text) ==
    /\ user_id \in DOMAIN onboarding_state
    /\ pc[t] = "idle"
    /\ ev'[t] = Event("text", user_id, DirectChat(user_id))
    /\ handle_text_message(t, user_id, DirectChat(user_id), text)

\* Unit t has just replied the summary that ends an onboarding dialogue.
Summarised(t) ==
    pc[t] = "reply" /\ loc[t].route = "onboarding_answer" /\ loc[t].reply = "summary"

\* C1, per answer: a valid answer at step s < 7 leaves the session at step s + 1, and
\* a valid answer at step 7 records the profile the session collected.
C1_ValidAnswerAdvances ==
    \A t \in Units, user_id \in Users, text \in AnswerTexts :
        (AnswerStep(t, user_id, text)
            /\ ValidAnswer(onboarding_state[user_id].step, text))
        => LET step == onboarding_state[user_id].step
           IN  IF step < 7
               THEN /\ user_id \in DOMAIN onboarding_state'
                    /\ onboarding_state'[user_id].step = step + 1
                    /\ user_profiles' = user_profiles
               ELSE /\ user_id \in DOMAIN user_profiles'
                    /\ DOMAIN user_profiles'[user_id] =
                           DOMAIN onboarding_state[user_id].data \cup {"current_medications"}
                    /\ \A f \in DOMAIN onboarding_state[user_id].data :
                           user_profiles'[user_id][f] = onboarding_state[user_id].data[f]

\* C1, at the end: when the summary is replied, the user has no session and a profile.
C1_NoResidualSession ==
    \A t \in Units :
        Summarised(t) =>
            /\ ev[t].user \notin DOMAIN onboarding_state
            /\ ev[t].user \in DOMAIN user_profiles

\* C1: for every sequence of seven valid answers from a fresh session the step goes
\* up by exactly one per accepted answer, and after the seventh answer the user has
\* no onboarding session and exactly one recorded profile.
C1_SevenValidAnswers == [][C1_ValidAnswerAdvances /\ C1_NoResidualSession']_vars

\* Witness of C1: a dialogue has ended with a complete profile and no session.
C1_Witness ==
    /\ Summarised("w1")
    /\ "U1" \notin DOMAIN onboarding_state
    /\ is_user_profile_complete("U1")

\* C2: an invalid answer at step 2, 3, 4 or 6 leaves the session's step and partial
\* data and the user's stored profile as they were, and the reply is a re-prompt.
C2_InvalidAnswerReprompts ==
    [][\A t \in Units, user_id \in Users, text \in AnswerTexts :
          (AnswerStep(t, user_id, text)
              /\ onboarding_state[user_id].step \in {2, 3, 4, 6}
              /\ ~ValidAnswer(onboarding_state[user_id].step, text))
          => /\ onboarding_state' = onboarding_state
             /\ user_profiles' = user_profiles
             /\ pc'[t] = "reply"
             /\ loc'[t].reply \in RePrompts]_vars

\* Witness of C2: a re-prompt was replied at each of the four validating steps.
C2_Witness ==
    /\ pc["w1"] = "reply"
    /\ loc["w1"].reply = "reprompt_age_range"
    /\ onboarding_state["U1"].step = 2
    /\ "U1" \in DOMAIN user_profiles

\* C4: when a session accepts its step-7 answer, the profile recorded for the user
\* is complete, whatever answers steps 1 to 7 accepted.
C4_RecordedProfileComplete ==
    \A t \in Units : Summarised(t) => is_user_profile_complete(ev[t].user)

\* The session of user_id has accepted its step-7 answer and is still there, beside
\* the profile it produced.
RecordedNotDeleted(user_id) ==
    /\ user_id \in DOMAIN onboarding_state
    /\ "current_medications" \in DOMAIN onboarding_state[user_id].data
    /\ user_id \in DOMAIN user_profiles
    /\ user_profiles[user_id] = onboarding_state[user_id].data

\* C3: the state between recording the profile and deleting the session exists only
\* while the unit that makes the transition holds the event loop, so no other handler
\* runs in it; and a unit that has accepted a step-7 answer never leaves the user
\* without the profile.
C3_StepSevenAllOrNothing ==
    /\ \A user_id \in Users :
           RecordedNotDeleted(user_id)
           => /\ running \in Units
              /\ pc[running] = "ob_del"
              /\ ev[running].user = user_id
    /\ \A t \in Units :
           (pc[t] \in {"ob_del", "reply"} /\ loc[t].reply = "summary")
           => ev[t].user \in DOMAIN user_profiles

\* Witness of C3: a unit is between recording and deleting while the other unit has
\* an unfinished handler for the same user.
C3_Witness ==
    /\ pc["w1"] = "ob_del"
    /\ RecordedNotDeleted(ev["w1"].user)
    /\ pc["w2"] = "reply"
    /\ ev["w2"].user = ev["w1"].user

\* The replies of process_onboarding_answer.
AnswerReplies ==
    RePrompts \cup {"ack_name_q2", "q3", "q4", "q5", "q6", "q7", "summary"}

\* C9: while a user's session is open, any text of that user is handled as an
\* onboarding answer: the mode registry is left alone, the session is advanced or
\* kept and never reset, and no listing or query is started.
C9_OpenSessionTakesEveryText ==
    [][\A t \in Units, user_id \in Users, text \in RouterTexts :
          AnswerStep(t, user_id, text)
          => /\ loc'[t].route = "onboarding_answer"
             /\ loc'[t].reply \in AnswerReplies
             /\ pc'[t] \in {"reply", "ob_del"}
             /\ user_modes' = user_modes
             /\ store_name_cache' = store_name_cache
             /\ user_id \in DOMAIN onboarding_state'
             /\ onboarding_state'[user_id].step \in
                    {onboarding_state[user_id].step, onboarding_state[user_id].step + 1}
             /\ \A f \in DOMAIN onboarding_state[user_id].data :
                    /\ f \in DOMAIN onboarding_state'[user_id].data
                    /\ onboarding_state'[user_id].data[f] =
                           onboarding_state[user_id].data[f]]_vars

\* Witness of C9: a mode-switch command sent at step 1 became the user's name, and
\* the user's mode was not set.
C9_Witness ==
    /\ "U1" \in DOMAIN onboarding_state
    /\ onboarding_state["U1"].step = 2
    /\ onboarding_state["U1"].data["name"] = U_switch_personal
    /\ "U1" \notin DOMAIN user_modes
    /\ pc["w1"] = "reply"
    /\ loc["w1"].reply = "ack_name_q2"

\* The rules of the router for a user without a session, in their order.
Rules == <<"onboarding_start", "profile_view", "profile_update", "mode_switch",
           "mode_query", "list_documents", "query">>

\* The predicate of each rule.
RuleMatches(rule, text) ==
    CASE rule = "onboarding_start" -> is_onboarding_command(text)
      [] rule = "profile_view" -> is_profile_view_command(text)
      [] rule = "profile_update" -> is_profile_update_command(text)
      [] rule = "mode_switch" -> is_mode_switch_intent(text) # ""
      [] rule = "mode_query" -> is_mode_query(text)
      [] rule = "list_documents" -> is_list_files_intent(text)
      [] rule = "query" -> TRUE

\* The lowest-numbered rule whose predicate matches the text.
FirstMatch(text) ==
    Rules[CHOOSE i \in DOMAIN Rules :
              /\ RuleMatches(Rules[i], text)
              /\ \A j \in 1..(i - 1) : ~RuleMatches(Rules[j], text)]

\* The replies of each rule's handling path.
RuleReplies(rule) ==
    CASE rule = "onboarding_start" -> {"q1"}
      [] rule = "profile_view" -> {"profile", "no_profile"}
      [] rule = "profile_update" -> {"reset_q1"}
      [] rule = "mode_switch" -> {"switched"}
      [] rule = "mode_query" -> {"mode_status"}
      [] rule = "list_documents" -> {""}
      [] rule = "query" -> {""}

\* Unit t takes up a text of user_id in this step, while that user has no session.
CommandStep(t, user_id, text) ==
    /\ user_id \notin DOMAIN onboarding_state
    /\ pc[t] = "idle"
    /\ ev'[t] = Event("text", user_id, DirectChat(user_id))
    /\ handle_text_message(t, user_id, DirectChat(user_id), text)

\* C10: a text of a user without a session takes the handling path of the first rule
\* that matches it, and only that path's effects happen: a session is opened only by
\* the onboarding-start and profile-update rules, the mode is set only by the
\* mode-switch rule, a listing is started only by the list-documents rule and a
\* query only by the query rule.
C10_FirstMatchWins ==
    [][\A t \in Units, user_id \in Users, text \in RouterTexts :
          CommandStep(t, user_id, text)
          => LET rule == FirstMatch(text)
             IN  /\ loc'[t].route = rule
                 /\ loc'[t].reply \in RuleReplies(rule)
                 /\ onboarding_state' =
                        IF rule \in {"onboarding_start", "profile_update"}
                        THEN SetItem(onboarding_state, user_id, NewSession)
                        ELSE onboarding_state
                 /\ user_modes' =
                        IF rule = "mode_switch"
                        THEN SetItem(user_modes, user_id, is_mode_switch_intent(text))
                        ELSE user_modes
                 /\ user_profiles' = user_profiles
                 /\ (pc'[t] \in {"l_list", "l_docs"}) <=> (rule = "list_documents")
                 /\ (pc'[t] \in {"q_list", "q_generate"}) <=> (rule = "query")
                 /\ (pc'[t] = "reply") <=> (rule \notin {"list_documents", "query"})]_vars

\* Witness of C10: one unit has taken the profile-view path and the other the
\* mode-switch path, and neither opened a session.
C10_Witness ==
    /\ pc["w1"] = "reply"
    /\ loc["w1"].route = "profile_view"
    /\ pc["w2"] = "reply"
    /\ loc["w2"].route = "mode_switch"
    /\ ev["w1"].user = ev["w2"].user
    /\ ev["w1"].user \notin DOMAIN onboarding_state
    /\ user_modes[ev["w2"].user] = "personal"

\* The handles an upload has obtained for a logical store name.
Obtained(store_name) == {p[2] : p \in {q \in obtained : q[1] = store_name}}

\* The stores the server has created under a display name.
ServerCreated(display_name) ==
    {h \in DOMAIN stores :
        stores[h].display_name = display_name /\ stores[h].by = "server"}

\* The logical store names of the uploads.
StoreNames == {get_store_name(user_id, DirectChat(user_id)) : user_id \in Users}

\* C5: the uploads that resolve one logical store name all obtain the same handle,
\* and once a name has been resolved no later resolution of it lists or creates
\* stores: it is served from store_name_cache.
C5_SecondResolutionFromCache ==
    /\ \A store_name \in StoreNames : Cardinality(Obtained(store_name)) <= 1
    /\ \A t \in Units :
           pc[t] \in {"ens_list", "ens_create"} => Obtained(loc[t].store_name) = {}
    /\ \A t \in Units :
           (pc[t] = "up_submit" /\ loc[t].via = "cache")
           => /\ loc[t].store_name \in DOMAIN store_name_cache
              /\ Obtained(loc[t].store_name) = {store_name_cache[loc[t].store_name]}
              /\ loc[t].actual = store_name_cache[loc[t].store_name]

\* Witness of C5: a second upload of user "U2" has its handle from the cache, the
\* handle of the store the first resolution created.
C5_Witness ==
    /\ pc["w1"] = "up_submit"
    /\ loc["w1"].via = "cache"
    /\ ev["w1"].user = "U2"
    /\ Alive(loc["w1"].actual)
    /\ stores[loc["w1"].actual].by = "server"
    /\ pc["w2"] = "idle"

\* C6: however the uploads of one server process interleave, the server creates at
\* most one store per display name and all uploads of a name obtain the same handle;
\* for a name without a remote store, when no createStore call has failed, the
\* uploads that resolved it issued exactly one createStore call.
C6_CreateSerializedPerName ==
    \A store_name \in StoreNames :
        /\ Cardinality(ServerCreated(store_name)) <= 1
        /\ Cardinality(Obtained(store_name)) <= 1
        /\ (/\ Obtained(store_name) # {}
            /\ store_name \notin create_failed
            /\ \A h \in DOMAIN stores :
                   stores[h].display_name = store_name => stores[h].by = "server")
           => /\ Cardinality(ServerCreated(store_name)) = 1
              /\ Obtained(store_name) = ServerCreated(store_name)

\* Witness of C6: two uploads for the personal store of "U2", which does not exist
\* yet, are in flight; one has created the store while the other waits for its
\* download.
C6_Witness ==
    /\ pc["w1"] = "up_submit"
    /\ loc["w1"].via = "create"
    /\ pc["w2"] = "download"
    /\ loc["w2"].store_name = loc["w1"].store_name
    /\ create_failed = {}

\* C7: an upload whose operation reports done reports success; an upload that times
\* out does not report success, and what it reports differs from what an upload
\* reports that failed (a remote error, or a store that could not be resolved).
C7_TimeoutDistinctFromFailure ==
    \A t \in Units :
        (pc[t] = "push" /\ loc[t].route = "upload")
        => /\ loc[t].cause = "done" => loc[t].reply = "upload_ok"
           /\ loc[t].cause = "timeout"
              => /\ loc[t].reply # "upload_ok"
                 /\ \A other \in Units :
                        (pc[other] = "push" /\ loc[other].cause \in {"error", "unresolved"})
                        => loc[other].reply # loc[t].reply

\* C8: every resolution of a logical store name hands the upload a store that
\* exists, also after the store behind a cached name was deleted out-of-band.
C8_ResolutionRecoversDeletedStore ==
    [][\A t \in Units :
          (pc[t] # "up_submit" /\ pc'[t] = "up_submit")
          => /\ loc'[t].actual \in DOMAIN stores'
             /\ stores'[loc'[t].actual].alive]_vars

\* ------------------------------------------------------------------ C11

\* The fields of a stored profile.
ProfileFields ==
    {"name", "age", "gender", "diabetes_type", "education_level", "complications",
     "current_medications"}

\* The dictionaries is_user_profile_complete may be given: every field is absent,
\* empty or set.
Profiles == UNION {[D -> {<<>>, <<"x">>}] : D \in SUBSET ProfileFields}

\* The predicate is applied to any profile stored for the user "U1".
InitProfile ==
    /\ USE_KNOWLEDGE_BASE = TRUE
    /\ user_modes = EmptyDict
    /\ user_profiles \in {SetItem(EmptyDict, "U1", profile) : profile \in Profiles}
    /\ onboarding_state = EmptyDict
    /\ store_name_cache = EmptyDict
    /\ stores = <<>>
    /\ pc = [t \in Units |-> "idle"]
    /\ ev = [t \in Units |-> NoEvent]
    /\ loc = [t \in Units |-> LocInit]
    /\ running = "none"
    /\ create_failed = {}
    /\ obtained = {}
    /\ deletes = {}
    /\ events = 0

\* The follow event applies is_user_profile_complete and answers by its verdict.
NextProfile ==
    \E t \in {"w1"} :
        \/ FollowArrives(t)
        \/ Reply(t)

SpecProfile == InitProfile /\ [][NextProfile]_vars

\* The five fields are present and non-empty in the profile.
FiveFieldsSet(profile) ==
    /\ "name" \in DOMAIN profile /\ profile["name"] # <<>>
    /\ "age" \in DOMAIN profile /\ profile["age"] # <<>>
    /\ "gender" \in DOMAIN profile /\ profile["gender"] # <<>>
    /\ "diabetes_type" \in DOMAIN profile /\ profile["diabetes_type"] # <<>>
    /\ "education_level" \in DOMAIN profile /\ profile["education_level"] # <<>>

\* The profiles that differ from this one at most in complications and
\* current_medications, each of the two absent, empty or set.
OptionalVariants(profile) ==
    {q \in Profiles :
        \A f \in ProfileFields \ {"complications", "current_medications"} :
            /\ (f \in DOMAIN q) <=> (f \in DOMAIN profile)
            /\ f \in DOMAIN q => q[f] = profile[f]}

\* C11: is_user_profile_complete is true exactly when name, age, gender,
\* diabetes_type and education_level are present and non-empty; adding, removing or
\* emptying complications or current_medications does not change the verdict; the
\* follow event welcomes the user back exactly on that verdict.
C11_CompleteIffFiveFields ==
    /\ \A user_id \in Users :
           LET profile == get_user_profile(user_id)
           IN  /\ is_user_profile_complete(user_id) <=> FiveFieldsSet(profile)
               /\ \A q \in OptionalVariants(profile) :
                      ProfileComplete(q) <=> ProfileComplete(profile)
    /\ \A t \in Units :
           (pc[t] = "reply" /\ loc[t].route = "follow")
           => ((loc[t].reply = "welcome_back")
                  <=> FiveFieldsSet(get_user_profile(ev[t].user)))

\* Witness of C11: a profile with the five fields set and neither complications nor
\* medications was judged complete by the follow event.
C11_Witness ==
    /\ pc["w1"] = "reply"
    /\ loc["w1"].reply = "welcome_back"
    /\ DOMAIN user_profiles["U1"] =
           {"name", "age", "gender", "diabetes_type", "education_level"}

\* ------------------------------------------------------------------ C12

\* Unit t takes a step of its handler.
Steps(t) == pc'[t] # pc[t] \/ loc'[t] # loc[t]

\* The logical store name is not in the cache and no remote store has it as its
\* display name.
Unresolvable(store_name) ==
    store_name \notin DOMAIN store_name_cache /\ FindStore(store_name) = 0

\* C12: a query whose store is neither cached nor found by listStores() is answered
\* with the fixed "no files uploaded yet" guidance; generate_content is not called
\* and neither the remote stores nor the cache change.
C12_UnresolvableQueryGuides ==
    [][\A t \in Units :
          (pc[t] = "q_list" /\ Steps(t) /\ Unresolvable(loc[t].store_name))
          => /\ pc'[t] = "reply"
             /\ loc'[t].reply = "no_files"
             /\ stores' = stores
             /\ store_name_cache' = store_name_cache]_vars

\* Witness of C12: a user in personal mode without a store asked a question and is
\* about to get the guidance.
C12_Witness ==
    /\ pc["w1"] = "reply"
    /\ loc["w1"].route = "query"
    /\ loc["w1"].mode = "personal"
    /\ loc["w1"].reply = "no_files"
    /\ loc["w1"].cause = "not_found"
    /\ Unresolvable(loc["w1"].store_name)

\* ------------------------------------------------------------------ C13

\* C13: a listing whose logical name has no remote store returns the empty list (the
\* "no documents" reply, not an error); it creates no store and adds nothing to the
\* cache.
C13_ListingWithoutStoreIsEmpty ==
    [][\A t \in Units :
          (pc[t] = "l_list" /\ Steps(t) /\ FindStore(loc[t].store_name) = 0)
          => /\ pc'[t] = "reply"
             /\ loc'[t].reply = "no_documents"
             /\ stores' = stores
             /\ store_name_cache' = store_name_cache
             /\ loc[t].store_name \notin DOMAIN store_name_cache']_vars

\* Witness of C13: a user in personal mode without a store asked for the list and is
\* about to get the "no documents" reply.
C13_Witness ==
    /\ pc["w2"] = "reply"
    /\ loc["w2"].route = "list_documents"
    /\ loc["w2"].reply = "no_documents"
    /\ loc["w2"].cause = "not_found"
    /\ FindStore(loc["w2"].store_name) = 0
    /\ store_name_cache = EmptyDict

\* ------------------------------------------------------------------ C14

\* action=delete_file&doc_name=d/1
P_delete ==
    <<"a", "c", "t", "i", "o", "n", "=", "d", "e", "l", "e", "t", "e", "_", "f", "i",
     "l", "e", "&", "d", "o", "c", "_", "n", "a", "m", "e", "=", "d", "/", "1">>

\* action=delete_file
P_no_document ==
    <<"a", "c", "t", "i", "o", "n", "=", "d", "e", "l", "e", "t", "e", "_", "f", "i",
     "l", "e">>

\* action=refresh&doc_name=d/1
P_other ==
    <<"a", "c", "t", "i", "o", "n", "=", "r", "e", "f", "r", "e", "s", "h", "&", "d",
     "o", "c", "_", "n", "a", "m", "e", "=", "d", "/", "1">>

\* delete_file
P_malformed ==
    <<"d", "e", "l", "e", "t", "e", "_", "f", "i", "l", "e">>

\* The postback data of the model: the delete button of a carousel column, and data
\* the handler does not act on.
PostbackData == {P_delete, P_no_document, P_other, P_malformed}

\* handle_callback hands a postback event of some user to a free unit.
PostbackArrives(t) ==
    \E user_id \in Users, data \in PostbackData :
        /\ handle_postback(t, user_id, data)
        /\ UNCHANGED events

\* handle_callback hands a "list files" text of some user to a free unit.
ListRequestArrives(t) ==
    \E user_id \in Users :
        /\ handle_text_message(t, user_id, DirectChat(user_id), U_list)
        /\ UNCHANGED events

\* Listing and deleting documents: the carousel of a listing carries the delete
\* buttons whose postbacks delete_document serves.
NextDelete ==
    \E t \in Units :
        \/ ListRequestArrives(t)
        \/ ListStoresForListing(t)
        \/ ListDocuments(t)
        \/ PostbackArrives(t)
        \/ DeleteSdk(t)
        \/ DeleteRest(t)
        \/ Reply(t)

SpecDelete == InitStore /\ [][NextDelete]_vars

\* C14: every delete request sent to the remote service, by the SDK call and by the
\* REST fallback alike, carries the force flag set to true.
C14_EveryDeleteIsForced == \A request \in deletes : request.force = TRUE

\* Witness of C14: a delete request has gone out on each path, the REST one after the
\* SDK call failed.
C14_Witness ==
    /\ {request.path : request \in deletes} = {"sdk", "rest"}
    /\ pc["w1"] = "reply"
    /\ loc["w1"].reply = "deleted"
    /\ loc["w1"].cause = "rest"

\* ------------------------------------------------------------------ C15

\* A server with the knowledge base enabled or disabled by its configuration, on which
\* nobody has chosen a mode; the user "U1" may be at the last step of the onboarding
\* dialogue; the knowledge base store exists.
InitServer ==
    /\ USE_KNOWLEDGE_BASE \in BOOLEAN
    /\ user_modes = EmptyDict
    /\ \/ /\ user_profiles = EmptyDict
          /\ onboarding_state \in {EmptyDict, SetItem(EmptyDict, "U1", SessionAt(7))}
       \/ /\ user_profiles = SetItem(EmptyDict, "U1", CanonicalProfile)
          /\ onboarding_state = SetItem(EmptyDict, "U1", SessionAt(3))
    /\ store_name_cache = EmptyDict
    /\ stores = <<StoreRecord(KNOWLEDGE_BASE_STORE_NAME, "script")>>
    /\ pc = [t \in Units |-> "idle"]
    /\ ev = [t \in Units |-> NoEvent]
    /\ loc = [t \in Units |-> LocInit]
    /\ running = "none"
    /\ create_failed = {}
    /\ obtained = {}
    /\ deletes = {}
    /\ events = 0

\* The texts and postback data the events of the whole server carry: a command of
\* every rule, among them two that more than one rule recognises, a question and an
\* onboarding answer; the delete button and malformed data.
ServerTexts == {U_setup, U_my_profile, U_update, U_switch_knowledge, U_switch_my_files,
                U_start_personal_mode, U_mode, U_list, U_question, U_2}

ServerPostbacks == {P_delete, P_malformed}

\* handle_callback hands a text event of some user to a free unit.
TextEventArrives(t) ==
    \E user_id \in Users, text \in ServerTexts :
        /\ events < MaxEvents
        /\ events' = events + 1
        /\ handle_text_message(t, user_id, DirectChat(user_id), text)

\* handle_callback hands a file message of some user to a free unit.
FileEventArrives(t) ==
    \E user_id \in Users :
        /\ events < MaxEvents
        /\ events' = events + 1
        /\ handle_document_message(t, user_id, DirectChat(user_id))

\* handle_callback hands a postback event of some user to a free unit.
PostbackEventArrives(t) ==
    \E user_id \in Users, data \in ServerPostbacks :
        /\ events < MaxEvents
        /\ events' = events + 1
        /\ handle_postback(t, user_id, data)

\* handle_callback hands an image message of some user to a free unit.
ImageEventArrives(t) ==
    \E user_id \in Users :
        /\ events < MaxEvents
        /\ events' = events + 1
        /\ handle_image_message(t, user_id, DirectChat(user_id))

\* Every event kind of handle_callback and every step of the handlers.
NextServer ==
    \E t \in Units :
           \/ TextEventArrives(t)
           \/ FollowEventArrives(t)
           \/ FileEventArrives(t)
           \/ PostbackEventArrives(t)
           \/ ImageEventArrives(t)
           \/ ImageAck(t)
           \/ ImageDownload(t)
           \/ AnalyzeImage(t)
           \/ OnboardingDelete(t)
           \/ ListStoresForListing(t)
           \/ ListDocuments(t)
           \/ ListStoresForQuery(t)
           \/ GenerateContent(t)
           \/ Ack(t)
           \/ Download(t)
           \/ EnsureList(t)
           \/ EnsureCreate(t)
           \/ UploadSubmit(t)
           \/ Poll(t)
           \/ DeleteSdk(t)
           \/ DeleteRest(t)
           \/ Reply(t)

SpecServer == InitServer /\ [][NextServer]_vars

\* The mode the configuration gives a user who has not chosen one.
ConfiguredDefault == IF USE_KNOWLEDGE_BASE THEN "knowledge" ELSE "personal"

\* C15: every user starts in the configured default mode; a text routed by the
\* mode-switch rule sets the sender's mode to the mode it names; and no other step,
\* of any handler, changes any user's mode.
C15_ModeChangesOnlyBySwitch ==
    /\ \A user_id \in Users : get_user_mode(user_id) = ConfiguredDefault
    /\ [][\A user_id \in Users :
             /\ \A t \in Units, text \in ServerTexts :
                   (CommandStep(t, user_id, text) /\ FirstMatch(text) = "mode_switch")
                   => get_user_mode(user_id)' = is_mode_switch_intent(text)
             /\ get_user_mode(user_id)' # get_user_mode(user_id)
                => \E t \in Units, text \in ServerTexts :
                      /\ CommandStep(t, user_id, text)
                      /\ FirstMatch(text) = "mode_switch"]_vars

\* Witness of C15: with the knowledge base disabled, "U1" has switched to the
\* knowledge mode and asks a question in it, while "U2" is still in the default.
C15_Witness ==
    /\ ~USE_KNOWLEDGE_BASE
    /\ get_user_mode("U1") = "knowledge"
    /\ get_user_mode("U2") = "personal"
    /\ pc["w1"] = "reply"
    /\ loc["w1"].route = "query"
    /\ loc["w1"].mode = "knowledge"
    /\ ev["w1"].user = "U1"

\* What user_profiles stores for user_id: the profile, or nothing.
StoredProfile(user_id) ==
    IF user_id \in DOMAIN user_profiles THEN <<user_profiles[user_id]>> ELSE <<>>

\* C16: what is stored as a user's profile changes only in the step in which a
\* handler takes up a text of that user whose session is at step 7, and then it
\* becomes the data that session collected; starting a session, the answers of
\* steps 1 to 6, and every step of the query, mode, listing, upload, delete and
\* follow handlers leave every user's stored profile as it was.
C16_ProfileChangesOnlyAtStepSeven ==
    [][\A user_id \in Users :
          StoredProfile(user_id)' # StoredProfile(user_id)
          => \E t \in Units, text \in ServerTexts :
                /\ AnswerStep(t, user_id, text)
                /\ onboarding_state[user_id].step = 7
                /\ StoredProfile(user_id)' =
                       <<process_onboarding_answer(onboarding_state[user_id], text).data>>]_vars

\* Witness of C16: a dialogue has recorded the user's profile and the user has then
\* asked to update it: the session of the re-setup is open at step 1 and the
\* recorded profile is still stored.
C16_Witness ==
    /\ StoredProfile("U1") # <<>>
    /\ "U1" \in DOMAIN onboarding_state
    /\ onboarding_state["U1"].step = 1
    /\ pc["w1"] = "reply"
    /\ loc["w1"].route = "profile_update"
    /\ ev["w1"].user = "U1"

\* C17: at step 5 an answer that is neither the none code or word nor a comma list
\* holding at least one complication code 1 to 5 is turned away: the reply is a
\* re-prompt and the session stays at step 5 with no complications written.
C17_InvalidComplicationsRejected ==
    [][\A t \in Units, user_id \in Users, text \in AnswerTexts :
          (AnswerStep(t, user_id, text)
              /\ onboarding_state[user_id].step = 5
              /\ ~ValidAnswer(5, text))
          => /\ onboarding_state' = onboarding_state
             /\ pc'[t] = "reply"
             /\ loc'[t].reply \in RePrompts]_vars

\* What onboarding_state holds for user_id: the session, or nothing.
StoredSession(user_id) ==
    IF user_id \in DOMAIN onboarding_state THEN <<onboarding_state[user_id]>> ELSE <<>>

\* Unit t is between recording the profile of user_id and deleting the session.
Applying(t, user_id) == pc[t] = "ob_del" /\ ev[t].user = user_id

\* C18: with several handlers of one user's texts in flight, each answer is applied
\* to the session in one step: when a handler takes up an answer no other handler
\* is part-way through applying one for that user; the answer is judged against
\* the step the session has at that moment; below step 7 the step advances by
\* exactly one if the answer is accepted and stays if it is re-prompted; and
\* between such steps the user's session changes only when a handler of one of
\* that user's events starts or the step-7 acceptance deletes it.
C18_AnswersAppliedAtomically ==
    [][\A user_id \in Users :
          /\ \A t \in Units, text \in RouterTexts :
                AnswerStep(t, user_id, text)
                => LET state == onboarding_state[user_id]
                       r == process_onboarding_answer(state, text)
                   IN  /\ \A other \in Units : ~Applying(other, user_id)
                       /\ loc'[t].reply = r.reply
                       /\ StoredSession(user_id)' = <<[step |-> r.step, data |-> r.data]>>
                       /\ state.step < 7
                          => r.step = IF r.reply \in RePrompts THEN state.step
                                      ELSE state.step + 1
                       /\ state.step = 7 => Applying(t, user_id)'
          /\ StoredSession(user_id)' # StoredSession(user_id)
             => \E t \in Units :
                   \/ pc[t] = "idle" /\ ev'[t].user = user_id
                   \/ Applying(t, user_id) /\ StoredSession(user_id)' = <<>>]_vars

\* Witness of C18: two handlers of texts of U1 are in flight at once, the first has
\* had its answer accepted at step 1 and the second at step 2, and the session
\* stands at step 3.
C18_Witness ==
    /\ \A t \in Units :
           /\ pc[t] = "reply"
           /\ ev[t].user = "U1"
           /\ loc[t].route = "onboarding_answer"
    /\ loc["w1"].reply = "ack_name_q2"
    /\ loc["w2"].reply = "q3"
    /\ onboarding_state["U1"].step = 3

\* One handler taking file messages one after the other. Every step of a handler
\* that has started is eventually taken: a sleep ends, a remote call returns or
\* raises, and the event loop resumes a coroutine that is ready.
UploadStep(t) ==
    \/ Ack(t)
    \/ Download(t)
    \/ EnsureList(t)
    \/ EnsureCreate(t)
    \/ UploadSubmit(t)
    \/ Poll(t)
    \/ Reply(t)

NextUpload ==
    \/ \E t \in {"w1"} : FileArrives(t) \/ UploadStep(t)
    \/ \E h \in DOMAIN stores : ExternalDelete(h)

SpecUpload == InitStore /\ [][NextUpload]_vars /\ WF_vars(UploadStep("w1"))

\* The program counters inside upload_to_file_search_store.
UploadCall == {"ens_list", "ens_create", "up_submit", "sleep"}

\* C19: every upload call returns. While the call polls, the operation is not done
\* and the accumulated wait is below max_wait; the accumulated wait is a whole
\* number of poll_interval waits, at most max_wait \div poll_interval of them, so
\* it never exceeds max_wait; each poll that goes on polling adds exactly
\* poll_interval; a poll that reports the operation done ends the call at once with
\* success; and a call that has started reaches its result.
C19_UploadTerminates ==
    /\ [](\A t \in Units :
             /\ pc[t] = "sleep" => ~loc[t].done /\ loc[t].elapsed < max_wait
             /\ loc[t].elapsed \in
                    {polls * poll_interval : polls \in 0..(max_wait \div poll_interval)}
             /\ loc[t].elapsed <= max_wait)
    /\ [][\A t \in Units :
             Poll(t)
             => /\ pc'[t] = "sleep" => loc'[t].elapsed = loc[t].elapsed + poll_interval
                /\ loc'[t].done => pc'[t] = "push" /\ loc'[t].reply = "upload_ok"]_vars
    /\ \A t \in Units : (pc[t] \in UploadCall) ~> (pc[t] = "push")

\* Witness of C19: the call has run into the ceiling: the last poll brought the
\* accumulated wait to max_wait with the operation still not done, and the call
\* ended with the timeout.
C19_Witness ==
    /\ pc["w1"] = "push"
    /\ loc["w1"].cause = "timeout"
    /\ loc["w1"].elapsed = max_wait
    /\ ~loc["w1"].done

\* Unit t is about to reply after the listing of the stores failed while it was
\* resolving its store: the call raised before any handle was obtained.
ResolutionFailed(t) ==
    /\ pc[t] = "reply"
    /\ loc[t].cause = "error"
    /\ loc[t].actual = 0

\* query_file_search's answer for a logical name that has no store: the guidance
\* to upload a file first.
NoStoreReply == "no_files"

\* send_files_carousel's answer for a store that holds no documents.
EmptyStoreReply == "no_documents"

\* C20: when the listing of the stores fails while a query or a document listing
\* resolves its store, what the caller gets differs from what it gets for a name
\* that has no store (query) and from what it gets for an empty store (listing).
C20_ListFailureDistinguished ==
    \A t \in Units :
        ResolutionFailed(t)
        => /\ loc[t].route = "query" => loc[t].reply # NoStoreReply
           /\ loc[t].route = "list_documents" => loc[t].reply # EmptyStoreReply

\* The text the user reads in the reply of unit t: the message, and the text the
\* message interpolates (f"...{str(e)}").
ReplyText(t) == <<loc[t].reply, loc[t].detail>>

\* Unit t is about to reply to a question whose completion call raised with an error
\* that is not about a missing store.
QueryFailed(t) ==
    /\ pc[t] = "reply"
    /\ loc[t].route = "query"
    /\ loc[t].cause \in ErrorDetails \ {"store not found"}

\* C21: when the remote call of a question fails, the text replied does not depend
\* on what the error says: two handlers that reply to failed questions in the same
\* mode and with the same nudge reply the same text.
C21_FailureReplyIgnoresDetail ==
    \A t \in Units, other \in Units :
        (QueryFailed(t) /\ QueryFailed(other)
            /\ loc[t].mode = loc[other].mode /\ loc[t].nudge = loc[other].nudge)
        => ReplyText(t) = ReplyText(other)

\* The conversations an event of user_id can come from: the direct chat, and a
\* group and a room; the identifier of one group is spelled like the identifier
\* of a user.
GroupIds == {"C1", "U1"}

Conversations == [type : {"user", "group", "room"}, id : DOMAIN IdText]

SourcesOf(user_id) ==
    {DirectChat(user_id)} \cup [type : {"group", "room"}, id : GroupIds]

NamesTexts == {U_switch_personal, U_switch_knowledge, U_list}

InitNames ==
    /\ USE_KNOWLEDGE_BASE \in BOOLEAN
    /\ user_modes = EmptyDict
    /\ user_profiles = EmptyDict
    /\ onboarding_state = EmptyDict
    /\ store_name_cache = EmptyDict
    /\ stores = <<StoreRecord(KNOWLEDGE_BASE_STORE_NAME, "script")>>
    /\ pc = [t \in Units |-> "idle"]
    /\ ev = [t \in Units |-> NoEvent]
    /\ loc = [t \in Units |-> LocInit]
    /\ running = "none"
    /\ create_failed = {}
    /\ obtained = {}
    /\ deletes = {}
    /\ events = 0

\* handle_callback hands a text or a file of some conversation to the unit.
NamesEventArrives(t) ==
    \E user_id \in Users :
        \E source \in SourcesOf(user_id) :
            /\ events < MaxEvents
            /\ events' = events + 1
            /\ \/ handle_document_message(t, user_id, source)
               \/ \E text \in NamesTexts : handle_text_message(t, user_id, source, text)

NextNames ==
    \E t \in {"w1"} :
        \/ NamesEventArrives(t)
        \/ ListStoresForListing(t)
        \/ ListDocuments(t)
        \/ UploadStep(t)

SpecNames == InitNames /\ [][NextNames]_vars

\* C22: get_store_name gives the shared knowledge-base name exactly when the
\* sender's mode is knowledge; otherwise the name is the source kind, an
\* underscore and the source's identifier, two different conversations never get
\* the same name, and no such name is the knowledge-base name; and the name a
\* handler works with is the one get_store_name gave for its event.
C22_StoreNamePerConversation ==
    /\ \A user_id \in Users, source \in Conversations :
           /\ get_store_name(user_id, source) = KNOWLEDGE_BASE_STORE_NAME
                  <=> get_user_mode(user_id) = "knowledge"
           /\ get_user_mode(user_id) # "knowledge"
              => /\ get_store_name(user_id, source)
                        = KindText[source.type] \o <<"_">> \o IdText[source.id]
                 /\ \A other_id \in Users, other \in Conversations :
                        (get_user_mode(other_id) # "knowledge" /\ other # source)
                        => get_store_name(other_id, other) # get_store_name(user_id, source)
    /\ \A t \in Units :
           pc[t] \in {"ack", "download"}
           => loc[t].store_name = get_store_name(ev[t].user, ev[t].source)

\* Witness of C22: a file sent to a group by a user in personal mode is on its way
\* to the group's store, not the sender's.
C22_Witness ==
    /\ pc["w1"] = "download"
    /\ ev["w1"].user = "U2"
    /\ ev["w1"].source = [type |-> "group", id |-> "U1"]
    /\ get_user_mode("U2") = "personal"
    /\ loc["w1"].store_name = <<"g", "r", "o", "u", "p", "_", "U", "1">>

\* Unit t is about to send a reply that carries the personalization nudge.
Nudges(t) == pc[t] = "reply" /\ loc[t].route = "query" /\ loc[t].nudge

\* C23: the nudge is appended only to replies of questions taken up in knowledge
\* mode by a user without a complete profile, and at most one reply per user
\* carries it: no two replies to the same user both carry the nudge.
C23_NudgeOneTime ==
    /\ [](\A t \in Units : Nudges(t) => loc[t].mode = "knowledge")
    /\ [][\A t \in Units, user_id \in Users, text \in RouterTexts :
             (CommandStep(t, user_id, text) /\ loc'[t].nudge)
             => get_user_mode(user_id) = "knowledge" /\ ~is_user_profile_complete(user_id)]_vars
    /\ [](\A t \in Units, other \in Units :
             (Nudges(t) /\ Nudges(other) /\ ev[t].user = ev[other].user) => t = other)

\* The program counters at which a unit is inside a call of the remote store or of
\* the completion provider: listing the stores, listing the documents, creating a
\* store, submitting an upload, generating the answer, analysing an image.
RemoteCall == {"l_list", "l_docs", "q_list", "q_generate", "ens_list", "ens_create",
               "up_submit", "img_analyze"}

\* C24: while a unit is inside a remote call, the event loop is free for the
\* other units: a unit working for a different user can take its next step
\* before the call returns.
C24_RemoteCallDoesNotBlock ==
    \A t \in Units, other \in Units :
        (pc[t] \in RemoteCall /\ other # t /\ ev[other].user # ev[t].user)
        => CanRun(other)

\* The field each of the steps 1 to 6 collects, in the order of the dialogue.
CollectedBy ==
    <<"name", "age", "gender", "diabetes_type", "complications", "education_level">>

\* C25: every open session has a step in 1..7, and its data holds exactly the
\* fields of the steps before its step and no other; the one exception is inside
\* the uninterrupted run that accepts the step-7 answer, between recording the
\* medications and deleting the session, which no other handler can observe.
C25_SessionWellFormed ==
    \A user_id \in DOMAIN onboarding_state :
        LET state == onboarding_state[user_id]
        IN  /\ state.step \in 1..7
            /\ DOMAIN state.data =
                   {CollectedBy[i] : i \in 1..(state.step - 1)}
                       \cup (IF \E t \in Units : Applying(t, user_id)
                             THEN {"current_medications"} ELSE {})

\* Witness of C25: a session that six accepted answers have brought to step 7 waits
\* for the last answer.
C25_Witness ==
    /\ "U1" \in DOMAIN onboarding_state
    /\ onboarding_state["U1"].step = 7
    /\ DOMAIN onboarding_state["U1"].data = {CollectedBy[i] : i \in 1..6}
    /\ pc["w1"] = "idle"

\* C26: once a session is open for a user, only that user's text answers change it
\* (the step-7 acceptance ends it): no other event of the user resets it or drops
\* its data, and the step of an open session never decreases.
C26_OnlyAnswersChangeSession ==
    [][\A user_id \in Users :
          user_id \in DOMAIN onboarding_state
          => /\ StoredSession(user_id)' # StoredSession(user_id)
                => \/ \E t \in Units, text \in AnswerTexts : AnswerStep(t, user_id, text)
                   \/ \E t \in Units : Applying(t, user_id) /\ StoredSession(user_id)' = <<>>
             /\ user_id \in DOMAIN onboarding_state'
                => onboarding_state'[user_id].step >= onboarding_state[user_id].step]_vars

\* C27: the cache of store names is write-once per key: an entry, once written by
\* an upload, a listing or a query, is neither replaced nor removed by any later
\* step of any handler.
C27_CacheWriteOnce ==
    [][\A store_name \in DOMAIN store_name_cache :
          /\ store_name \in DOMAIN store_name_cache'
          /\ store_name_cache'[store_name] = store_name_cache[store_name]]_vars

\* Witness of C27: a second upload to a personal store finds the entry the first
\* upload wrote when it created the store, and uses it.
C27_Witness ==
    /\ pc["w1"] = "up_submit"
    /\ loc["w1"].via = "cache"
    /\ loc["w1"].store_name # KNOWLEDGE_BASE_STORE_NAME
    /\ store_name_cache[loc["w1"].store_name] = loc["w1"].actual
    /\ stores[loc["w1"].actual].by = "server"

\* What the server keeps for user_id: the session, the profile and the mode.
UserState(user_id) ==
    <<StoredSession(user_id), StoredProfile(user_id), get_user_mode(user_id)>>

\* Unit t takes a step for an event of user_id: it takes the event up, or it goes
\* on with the handler of an event it has taken up.
StepsFor(t, user_id) ==
    /\ pc'[t] # pc[t] \/ loc'[t] # loc[t]
    /\ IF pc[t] = "idle" THEN ev'[t].user = user_id ELSE ev[t].user = user_id

\* C28: a step of the handler of an event of one user (text, follow, file, image,
\* postback) leaves the session, the profile and the mode of every other user as
\* they were, however the handlers of different users interleave.
C28_OtherUsersUntouched ==
    [][\A user_id \in Users :
          UserState(user_id)' # UserState(user_id)
          => \E t \in Units : StepsFor(t, user_id)]_vars

\* Witness of C28: the handlers of two users are in flight together, U1's has just
\* recorded U1's profile and U2's has opened U2's session, each user's state
\* standing beside the other's.
C28_Witness ==
    /\ ev["w1"].user = "U1"
    /\ ev["w2"].user = "U2"
    /\ pc["w1"] = "reply"
    /\ loc["w1"].reply = "summary"
    /\ pc["w2"] = "reply"
    /\ StoredProfile("U1") # <<>>
    /\ StoredSession("U1") = <<>>
    /\ StoredSession("U2") = <<NewSession>>

\* The program counters inside ensure_file_search_store_exists.
Resolving == {"ens_list", "ens_create"}

\* C29: when listing or creating the store raises during an upload, the upload
\* reports failure without submitting a document, and the cache and the stores
\* are left as they were, so that the next upload to the name resolves it again
\* from the start; an upload is submitted after a resolution only with the
\* handle the resolution obtained, which is then the cached one.
C29_FailedResolutionLeavesNoTrace ==
    [][\A t \in Units :
          (pc[t] \in Resolving /\ pc'[t] \notin Resolving)
          => \/ /\ pc'[t] = "push"
                /\ loc'[t].reply = "upload_failed"
                /\ loc'[t].cause = "unresolved"
                /\ store_name_cache' = store_name_cache
                /\ stores' = stores
             \/ /\ pc'[t] = "up_submit"
                /\ loc'[t].actual \in DOMAIN stores'
                /\ stores'[loc'[t].actual].display_name = loc[t].store_name
                /\ loc[t].store_name \in DOMAIN store_name_cache'
                /\ store_name_cache'[loc[t].store_name] = loc'[t].actual]_vars

\* Witness of C29: an upload to a name whose creation failed before is resolving
\* the name again, the cache holding nothing for it.
C29_Witness ==
    /\ pc["w1"] = "ens_list"
    /\ loc["w1"].store_name \in create_failed
    /\ loc["w1"].store_name \notin DOMAIN store_name_cache

\* The knowledge-base upload script, a process of its own beside the server: it
\* shares the remote service with the server and nothing else, and its steps wait
\* for no event loop.
Processes == Units \cup {"script"}

ScriptFrame ==
    UNCHANGED <<USE_KNOWLEDGE_BASE, user_modes, user_profiles, onboarding_state,
                store_name_cache, ev, running, history, events>>

\* get_or_create_knowledge_base_store: client.file_search_stores.list() returns or
\* raises (sys.exit(1)).
ScriptList ==
    /\ pc["script"] = "s_list"
    /\ ScriptFrame
    /\ UNCHANGED stores
    /\ \/ /\ pc' = [pc EXCEPT !["script"] = "s_exit"]
          /\ UNCHANGED loc
       \/ LET h == FindStore(KNOWLEDGE_BASE_STORE_NAME)
          IN  IF h # 0
              THEN /\ pc' = [pc EXCEPT !["script"] = "s_upload"]
                   /\ loc' = [loc EXCEPT !["script"].actual = h, !["script"].via = "list"]
              ELSE /\ pc' = [pc EXCEPT !["script"] = "s_create"]
                   /\ UNCHANGED loc

\* get_or_create_knowledge_base_store: client.file_search_stores.create(...) returns
\* or raises (sys.exit(1)).
ScriptCreate ==
    /\ pc["script"] = "s_create"
    /\ ScriptFrame
    /\ \/ /\ pc' = [pc EXCEPT !["script"] = "s_exit"]
          /\ UNCHANGED <<stores, loc>>
       \/ /\ stores' = CreateStore(KNOWLEDGE_BASE_STORE_NAME, "script")
          /\ pc' = [pc EXCEPT !["script"] = "s_upload"]
          /\ loc' = [loc EXCEPT !["script"].actual = Len(stores) + 1,
                                !["script"].via = "create"]

\* The script has just been started and is about to list the stores; the server
\* is idle; the service holds no store.
InitScript ==
    /\ USE_KNOWLEDGE_BASE = TRUE
    /\ user_modes = EmptyDict
    /\ user_profiles = EmptyDict
    /\ onboarding_state = EmptyDict
    /\ store_name_cache = EmptyDict
    /\ stores = <<>>
    /\ pc = [t \in Processes |-> IF t = "script" THEN "s_list" ELSE "idle"]
    /\ ev = [t \in Processes |-> NoEvent]
    /\ loc = [t \in Processes |-> LocInit]
    /\ running = "none"
    /\ create_failed = {}
    /\ obtained = {}
    /\ deletes = {}
    /\ events = 0

NextScript ==
    \/ \E t \in {"w1"} : FileArrives(t) \/ UploadStep(t)
    \/ ScriptList
    \/ ScriptCreate

SpecScript == InitScript /\ [][NextScript]_vars

\* C30: with the script and the server both resolving the knowledge-base name
\* while the service has no store of that name, at most one store with that
\* display name is ever created.
C30_OneKnowledgeBaseStore ==
    Cardinality({h \in DOMAIN stores :
                    stores[h].display_name = KNOWLEDGE_BASE_STORE_NAME}) <= 1

====
